---- MODULE Spec2Model ----
(***************************************************************************)
(* A model of pytest-schema-snapshot: the RawSchema inference and merge    *)
(* engine of typed_schemashot/schema_utils.py, and the FormatDetector and  *)
(* the JsonToSchemaConverter of pytest_jsonschema_snapshot/tools/          *)
(* genson_addon.                                                           *)
(***************************************************************************)
EXTENDS Integers, Sequences, FiniteSets, TLC

VARIABLES
    acc,      \* the accumulated RawSchema of a merge session (None before the first call)
    hist,     \* SpecFold: the values folded into acc so far, in order
    n,        \* the number of gen_schema results folded into acc
    builder,  \* JsonToSchemaConverter: the root node of the genson base builder
    fcache,   \* JsonToSchemaConverter._format_cache: path -> set of detected formats
    mode,     \* JsonToSchemaConverter._format_mode
    seen,     \* the values passed to add_object so far, in order
    out,      \* the document to_schema returned for the objects added so far
              \* (None when it has not been called since the last add_object)
    schema_uri, \* the schema_uri argument of JsonToSchemaConverter.__init__
    limit,    \* JsonToSchemaConverter._examples_limit
    ecache,   \* JsonToSchemaConverter._examples_cache: path -> list of values
    arg,      \* the argument of a single call of gen_schema or detect_format
    ret,      \* what that call returned (None before it returns)
    raised,   \* whether that call raised
    old_schema,   \* SchemaComparator.old_schema
    new_schema,   \* SchemaComparator.new_schema
    _last_key,    \* JsonSchemaDiff._last_key, shared by every caller
    _last_result, \* JsonSchemaDiff._last_result, shared by every caller
    pc,       \* each caller of JsonSchemaDiff.diff: its position in the call
    loc,      \* each caller of JsonSchemaDiff.diff: its local variables
    files,    \* SchemaShot.snapshot_dir: file name -> content
    used_schemas, \* SchemaShot.used_schemas
    update_mode,  \* SchemaShot.update_mode
    save_original, \* SchemaShot.save_original
    stats,    \* GLOBAL_STATS: the names recorded as created, updated, deleted, unused
    calls     \* the number of calls made on the SchemaShot and of cleanup

vars ==
    <<acc, hist, n, builder, fcache, mode, seen, out, schema_uri, limit, ecache,
      arg, ret, raised, old_schema, new_schema, _last_key, _last_result, pc, loc,
      files, used_schemas, update_mode, save_original, stats, calls>>

merge_vars == <<acc, hist, n>>
conv_vars == <<builder, fcache, mode, seen, out, schema_uri, limit, ecache>>
call_vars == <<arg, ret, raised>>
differ_vars == <<old_schema, new_schema, _last_key, _last_result, pc, loc>>
shot_vars == <<files, used_schemas, update_mode, save_original, stats, calls>>

---------------------------------------------------------------------------
(* Python's Optional[T]: None, or a value.                                 *)
None == <<>>
Some(v) == <<v>>
Get(o) == o[1]

(* No SchemaComparator is constructed, the diff cache is as the class      *)
(* defines it and no caller is inside JsonSchemaDiff.diff.                 *)
DifferIdle ==
    /\ old_schema = None /\ new_schema = None
    /\ _last_key = None /\ _last_result = None
    /\ pc = <<>> /\ loc = <<>>

(* No SchemaShot is constructed.                                           *)
ShotIdle ==
    /\ files = <<>> /\ used_schemas = {}
    /\ update_mode = FALSE /\ save_original = FALSE
    /\ stats = <<>> /\ calls = 0

Range(s) == {s[i] : i \in DOMAIN s}

---------------------------------------------------------------------------
(* JSON-compatible input values.  Every value is a record of one shape:    *)
(* kind, str (a string's text), keys (a mapping's keys in insertion        *)
(* order), props (the mapping), elems (a sequence's elements).             *)

JNull == [kind |-> "null", str |-> "", keys |-> <<>>, props |-> <<>>, elems |-> <<>>]
JBool == [kind |-> "boolean", str |-> "", keys |-> <<>>, props |-> <<>>, elems |-> <<>>]
JInt == [kind |-> "integer", str |-> "", keys |-> <<>>, props |-> <<>>, elems |-> <<>>]
JNum == [kind |-> "number", str |-> "", keys |-> <<>>, props |-> <<>>, elems |-> <<>>]
JStr(s) == [kind |-> "string", str |-> s, keys |-> <<>>, props |-> <<>>, elems |-> <<>>]
JArr(es) == [kind |-> "array", str |-> "", keys |-> <<>>, props |-> <<>>, elems |-> es]
JObj(ks, f) == [kind |-> "object", str |-> "", keys |-> ks, props |-> f, elems |-> <<>>]

(* The property names of the model, in sorted() order.                     *)
KeyOrder == <<"a", "b">>
Keys == Range(KeyOrder)

(* sorted(S) for a set of property names.                                  *)
Sorted(S) == SelectSeq(KeyOrder, LAMBDA k : k \in S)

---------------------------------------------------------------------------
(* Sample strings, one or two per pattern of the format detectors.         *)
EmailStr == "john.doe@example.com"
UuidStr == "550e8400-e29b-41d4-a716-446655440000"
DateTimeStr == "2024-12-31T23:59:59Z"
DateStr == "2024-12-31"
UriStr == "https://example.org"
Ipv4Str == "192.168.0.1"
PlainStr == "test"

(* A value that is no JSON-compatible value: a function.                   *)
JFunction == [kind |-> "function", str |-> "", keys |-> <<>>, props |-> <<>>, elems |-> <<>>]

(* The Python class of a value.                                            *)
PyClass(value) ==
    CASE value.kind = "null" -> "NoneType"
      [] value.kind = "boolean" -> "bool"
      [] value.kind = "integer" -> "int"
      [] value.kind = "number" -> "float"
      [] value.kind = "string" -> "str"
      [] value.kind = "array" -> "list"
      [] value.kind = "object" -> "dict"
      [] OTHER -> value.kind

(* isinstance(value, classes): bool is a subclass of int.                  *)
isinstance(value, classes) ==
    \/ PyClass(value) \in classes
    \/ PyClass(value) = "bool" /\ "int" \in classes

(* CONFIG.type_map: class -> kind name, in the order the dict is iterated. *)
type_map ==
    << <<{"NoneType"}, "null">>, <<{"bool"}, "boolean">>, <<{"int"}, "integer">>,
       <<{"float"}, "number">>, <<{"str"}, "string">>, <<{"list", "tuple"}, "array">>,
       <<{"dict"}, "object">> >>

(* What _get_type_name yields when it raises ValueError.                   *)
ValueError == "ValueError"

(* _get_type_name falling back to "string" where no entry matches.         *)
GetTypeNameFallback(value) ==
    LET hits == SelectSeq(type_map, LAMBDA e : isinstance(value, e[1]))
    IN IF hits # <<>> THEN hits[1][2] ELSE "string"

(* _get_type_name: the name of the first entry of CONFIG.type_map the      *)
(* value is an instance of; ValueError when there is none.                 *)
_get_type_name(value) ==
    LET hits == SelectSeq(type_map, LAMBDA e : isinstance(value, e[1]))
    IN IF hits # <<>> THEN hits[1][2] ELSE ValueError

(* _detect_format of schema_utils: date-time, then date, email, uri, ipv4. *)
_detect_format(value) ==
    IF value \in {DateTimeStr} THEN Some("date-time")
    ELSE IF value \in {DateStr} THEN Some("date")
    ELSE IF value \in {EmailStr} THEN Some("email")
    ELSE IF value \in {UriStr} THEN Some("uri")
    ELSE IF value \in {Ipv4Str} THEN Some("ipv4")
    ELSE None

---------------------------------------------------------------------------
(* RawSchema: type_names (a list), properties (Optional dict), items       *)
(* (Optional list), required (Optional list), format (Optional str).       *)
RawSchema(tn) ==
    [type_names |-> tn, properties |-> None, items |-> None,
     required |-> None, format |-> None]

(* list(dict.fromkeys(s)): s without its later duplicates, order kept.     *)
RECURSIVE Dedup(_)
Dedup(s) ==
    IF s = <<>> THEN <<>>
    ELSE LET front == Dedup(SubSeq(s, 1, Len(s) - 1))
             last == s[Len(s)]
         IN IF last \in Range(front) THEN front ELSE Append(front, last)

(* `x or {}` and `x or []` for an Optional dict or list.                   *)
OrEmpty(o) == IF o = None THEN <<>> ELSE Get(o)

RECURSIVE _merge_schemas(_, _)
RECURSIVE MergeAll(_, _)

(* The loop of _merge_schemas over items_a + items_b (lines 109-114), and  *)
(* of gen_schema over item_schemas[1:] (lines 140-142): a left fold.       *)
MergeAll(combined, schemas) ==
    IF schemas = <<>> THEN combined
    ELSE MergeAll(IF combined = None THEN Some(schemas[1])
                  ELSE Some(_merge_schemas(Get(combined), schemas[1])),
                  Tail(schemas))

(* _merge_schemas with all_keys taken from the first operand only.         *)
MergeKeysOfFirst(a, b) ==
    LET type_names == Dedup(a.type_names \o b.type_names)
        props_a == OrEmpty(a.properties)
        props_b == OrEmpty(b.properties)
        all_keys == DOMAIN props_a
        both == {k \in all_keys : k \in DOMAIN props_b}
        combined == MergeAll(None, OrEmpty(a.items) \o OrEmpty(b.items))
    IN [type_names |-> type_names,
        properties |->
            IF "object" \in Range(type_names)
            THEN Some([k \in all_keys |->
                         IF k \in both THEN _merge_schemas(props_a[k], props_b[k])
                         ELSE props_a[k]])
            ELSE None,
        required |-> IF "object" \in Range(type_names) /\ both # {}
                     THEN Some(Sorted(both)) ELSE None,
        items |-> IF "array" \in Range(type_names)
                  THEN (IF combined # None THEN Some(<<Get(combined)>>) ELSE Some(<<>>))
                  ELSE None,
        format |-> None]

(* _merge_schemas with required taken as the union of both operands'       *)
(* required lists.                                                         *)
MergeRequiredUnion(a, b) ==
    LET type_names == Dedup(a.type_names \o b.type_names)
        props_a == OrEmpty(a.properties)
        props_b == OrEmpty(b.properties)
        all_keys == DOMAIN props_a \cup DOMAIN props_b
        both == {k \in all_keys : k \in DOMAIN props_a /\ k \in DOMAIN props_b}
        merged_required == Sorted(Range(OrEmpty(a.required)) \cup Range(OrEmpty(b.required)))
        combined == MergeAll(None, OrEmpty(a.items) \o OrEmpty(b.items))
    IN [type_names |-> type_names,
        properties |->
            IF "object" \in Range(type_names)
            THEN Some([k \in all_keys |->
                         IF k \in both THEN _merge_schemas(props_a[k], props_b[k])
                         ELSE IF k \in DOMAIN props_a THEN props_a[k] ELSE props_b[k]])
            ELSE None,
        required |-> IF "object" \in Range(type_names) /\ merged_required # <<>>
                     THEN Some(merged_required) ELSE None,
        items |-> IF "array" \in Range(type_names)
                  THEN (IF combined # None THEN Some(<<Get(combined)>>) ELSE Some(<<>>))
                  ELSE None,
        format |-> None]

_merge_schemas(a, b) ==
    LET type_names == Dedup(a.type_names \o b.type_names)
        props_a == OrEmpty(a.properties)
        props_b == OrEmpty(b.properties)
        all_keys == DOMAIN props_a \cup DOMAIN props_b
        both == {k \in all_keys : k \in DOMAIN props_a /\ k \in DOMAIN props_b}
        properties ==
            [k \in all_keys |->
                IF k \in both THEN _merge_schemas(props_a[k], props_b[k])
                ELSE IF k \in DOMAIN props_a THEN props_a[k] ELSE props_b[k]]
        merged_required == Sorted(both)
        combined == MergeAll(None, OrEmpty(a.items) \o OrEmpty(b.items))
        is_object == "object" \in Range(type_names)
        is_array == "array" \in Range(type_names)
    IN [type_names |-> type_names,
        properties |-> IF is_object THEN Some(properties) ELSE None,
        required |-> IF is_object /\ merged_required # <<>>
                     THEN Some(merged_required) ELSE None,
        items |-> IF is_array
                  THEN (IF combined # None THEN Some(<<Get(combined)>>) ELSE Some(<<>>))
                  ELSE None,
        format |-> None]

RECURSIVE gen_schema(_)
(* gen_schema leaving the null-valued keys out of properties.              *)
GenSchemaSkipsNull(data) ==
    LET type_name == _get_type_name(data)
        kept == {k \in DOMAIN data.props : data.props[k].kind # "null"}
    IN IF type_name = "object"
       THEN [RawSchema(<<type_name>>) EXCEPT
                !.properties = Some([k \in kept |-> gen_schema(data.props[k])]),
                !.required = Some(data.keys)]
       ELSE IF type_name = "array"
       THEN IF data.elems = <<>>
            THEN RawSchema(<<type_name>>)
            ELSE [RawSchema(<<type_name>>) EXCEPT
                    !.items = Some(<<Get(MergeAll(None,
                                 [i \in DOMAIN data.elems |-> gen_schema(data.elems[i])]))>>)]
       ELSE IF type_name = "string"
            THEN [RawSchema(<<type_name>>) EXCEPT !.format = _detect_format(data.str)]
            ELSE RawSchema(<<type_name>>)

gen_schema(data) ==
    LET type_name == _get_type_name(data)
    IN IF type_name = "object"
       THEN [RawSchema(<<type_name>>) EXCEPT
                !.properties = Some([k \in DOMAIN data.props |-> gen_schema(data.props[k])]),
                !.required = Some(data.keys)]
       ELSE IF type_name = "array"
       THEN IF data.elems = <<>>
            THEN RawSchema(<<type_name>>)
            ELSE [RawSchema(<<type_name>>) EXCEPT
                    !.items = Some(<<Get(MergeAll(None,
                                 [i \in DOMAIN data.elems |-> gen_schema(data.elems[i])]))>>)]
       ELSE IF type_name = "string"
            THEN [RawSchema(<<type_name>>) EXCEPT !.format = _detect_format(data.str)]
            ELSE RawSchema(<<type_name>>)

(* urlparse(value) raises ValueError ("Invalid IPv6 URL") for a string     *)
(* with an unmatched bracket in its network location; _detect_format does  *)
(* not catch it.                                                           *)
MalformedUrl == "http://["
_detect_format_raises(value) == value \in {MalformedUrl}

(* Whether gen_schema(data) raises: _get_type_name(data) does, or          *)
(* _detect_format does, or the gen_schema of a property value or of an     *)
(* element does (nothing in gen_schema catches it).                        *)
RECURSIVE gen_schema_raises(_)
gen_schema_raises(data) ==
    LET type_name == _get_type_name(data)
    IN \/ type_name = ValueError
       \/ type_name = "string" /\ data.kind = "string" /\ _detect_format_raises(data.str)
       \/ type_name = "object" /\ \E k \in DOMAIN data.props : gen_schema_raises(data.props[k])
       \/ type_name = "array" /\ \E i \in DOMAIN data.elems : gen_schema_raises(data.elems[i])

---------------------------------------------------------------------------
(* A JSON Schema document of to_json_schema: `type` is a single name or a  *)
(* list; every other keyword is present (Some) or absent (None).           *)
TypeOf(type_names) ==
    [list |-> Len(type_names) # 1, names |-> type_names]

RECURSIVE to_json_schema(_)
(* to_json_schema copying raw.required into the document as it is.         *)
ToJsonSchemaRequiredVerbatim(raw) ==
    LET has_props == raw.properties # None /\ DOMAIN Get(raw.properties) # {}
        has_items == raw.items # None /\ Get(raw.items) # <<>>
    IN [type |-> TypeOf(raw.type_names),
        format |-> raw.format,
        properties |->
            IF has_props
            THEN Some([k \in DOMAIN Get(raw.properties) |->
                          to_json_schema(Get(raw.properties)[k])])
            ELSE None,
        additionalProperties |-> IF has_props THEN Some(FALSE) ELSE None,
        required |-> raw.required,
        items |-> IF has_items THEN Some(to_json_schema(Get(raw.items)[1])) ELSE None]

to_json_schema(raw) ==
    LET has_props == raw.properties # None /\ DOMAIN Get(raw.properties) # {}
        has_required == raw.required # None /\ Get(raw.required) # <<>>
        has_items == raw.items # None /\ Get(raw.items) # <<>>
    IN [type |-> TypeOf(raw.type_names),
        format |-> raw.format,
        properties |->
            IF has_props
            THEN Some([k \in DOMAIN Get(raw.properties) |->
                          to_json_schema(Get(raw.properties)[k])])
            ELSE None,
        additionalProperties |-> IF has_props THEN Some(FALSE) ELSE None,
        required |-> IF has_props /\ has_required THEN raw.required ELSE None,
        items |-> IF has_items THEN Some(to_json_schema(Get(raw.items)[1])) ELSE None]

(* JSON Schema validation of a value against a document, for the keywords  *)
(* type, properties, additionalProperties, required and items.             *)
TypeAccepts(names, kind) ==
    \/ kind \in Range(names)
    \/ kind = "integer" /\ "number" \in Range(names)

RECURSIVE Validates(_, _)
Validates(v, doc) ==
    /\ TypeAccepts(doc.type.names, v.kind)
    /\ (v.kind = "object" /\ doc.properties # None) =>
            \A k \in DOMAIN v.props \cap DOMAIN Get(doc.properties) :
                Validates(v.props[k], Get(doc.properties)[k])
    /\ (v.kind = "object" /\ doc.additionalProperties = Some(FALSE)) =>
            DOMAIN v.props \subseteq
                (IF doc.properties = None THEN {} ELSE DOMAIN Get(doc.properties))
    /\ (v.kind = "object" /\ doc.required # None) =>
            Range(Get(doc.required)) \subseteq DOMAIN v.props
    /\ (v.kind = "array" /\ doc.items # None) =>
            \A i \in DOMAIN v.elems : Validates(v.elems[i], Get(doc.items))

---------------------------------------------------------------------------
(* The inputs of the model.                                                *)
MaxArr == 3     \* the longest array
MaxObs == 2     \* Spec: the most values folded into one accumulator
MaxFold == 3    \* SpecFold: the most values folded into one accumulator

RECURSIVE SeqsUpTo(_, _)
SeqsUpTo(S, len) ==
    IF len = 0 THEN {<<>>}
    ELSE LET shorter == SeqsUpTo(S, len - 1)
         IN shorter \cup {Append(s, e) : s \in {t \in shorter : Len(t) = len - 1}, e \in S}

Scalars ==
    {JNull, JBool, JInt, JNum, JStr(PlainStr), JStr(EmailStr), JStr(DateStr)}

Objects ==
    { JObj(<<>>, <<>>),
      JObj(<<"a">>, [a |-> JInt]),
      JObj(<<"a">>, [a |-> JStr(PlainStr)]),
      JObj(<<"b">>, [b |-> JInt]),
      JObj(<<"a", "b">>, [a |-> JInt, b |-> JInt]),
      JObj(<<"b", "a">>, [a |-> JInt, b |-> JStr(EmailStr)]),
      JObj(<<"a">>, [a |-> JObj(<<>>, <<>>)]),
      JObj(<<"a">>, [a |-> JObj(<<"b">>, [b |-> JInt])]),
      JObj(<<"a">>, [a |-> JArr(<<JInt>>)]),
      JObj(<<"a">>, [a |-> JNull]) }

Elems == {JInt, JObj(<<>>, <<>>), JObj(<<"a">>, [a |-> JInt])}

Arrays == {JArr(es) : es \in SeqsUpTo(Elems, MaxArr)}

Values == Scalars \cup Objects \cup Arrays

ObjectArrays ==
    {JArr(es) : es \in SeqsUpTo({JObj(<<>>, <<>>), JObj(<<"a">>, [a |-> JInt])}, MaxArr)}

FoldValues == Objects \cup ObjectArrays \cup {JInt}

---------------------------------------------------------------------------
(* The merge session: a caller infers a schema from its first value and    *)
(* merges the schema of every further value into the accumulator.          *)
ConvIdle ==
    /\ builder = <<>> /\ fcache = <<>> /\ mode = "on" /\ seen = <<>> /\ out = None
    /\ schema_uri = None /\ limit = 0 /\ ecache = <<>>

(* No single call of gen_schema or detect_format is under way.             *)
CallIdle ==
    /\ arg = JNull /\ ret = None /\ raised = FALSE

Init ==
    /\ acc = None /\ hist = <<>> /\ n = 0
    /\ DifferIdle /\ ShotIdle
    /\ ConvIdle
    /\ CallIdle

(* acc = gen_schema(v)                                                     *)
Infer(v, keep) ==
    /\ acc = None
    /\ acc' = Some(gen_schema(v))
    /\ n' = 1
    /\ hist' = IF keep THEN <<v>> ELSE hist
    /\ UNCHANGED <<conv_vars, call_vars, differ_vars, shot_vars>>

(* acc = _merge_schemas(acc, gen_schema(v))                                *)
Merge(v, keep, bound) ==
    /\ acc # None
    /\ n < bound
    /\ acc' = Some(_merge_schemas(Get(acc), gen_schema(v)))
    /\ n' = n + 1
    /\ hist' = IF keep THEN Append(hist, v) ELSE hist
    /\ UNCHANGED <<conv_vars, call_vars, differ_vars, shot_vars>>

Next ==
    \/ \E v \in Values : Infer(v, FALSE)
    \/ \E v \in Values : Merge(v, FALSE, MaxObs)

Spec == Init /\ [][Next]_vars

NextFold ==
    \/ \E v \in FoldValues : Infer(v, TRUE)
    \/ \E v \in FoldValues : Merge(v, TRUE, MaxFold)

SpecFold == Init /\ [][NextFold]_vars

(* A single call schema = gen_schema(arg) on any value, JSON-compatible or *)
(* not.                                                                    *)
WithFunction ==
    {JArr(es) : es \in {t \in SeqsUpTo({JInt, JFunction}, MaxArr) : JFunction \in Range(t)}}

GenInputs ==
    Values \cup WithFunction
    \cup { JFunction,
           JObj(<<"a">>, [a |-> JFunction]),
           JObj(<<"a", "b">>, [a |-> JInt, b |-> JFunction]),
           JObj(<<"a">>, [a |-> JObj(<<"b">>, [b |-> JFunction])]),
           JObj(<<"a">>, [a |-> JArr(<<JInt, JFunction>>)]),
           JArr(<<JArr(<<JFunction>>)>>),
           JStr(MalformedUrl),
           JObj(<<"a">>, [a |-> JStr(MalformedUrl)]),
           JArr(<<JObj(<<>>, <<>>), JObj(<<"a">>, [a |-> JFunction])>>) }

InitGen ==
    /\ acc = None /\ hist = <<>> /\ n = 0
    /\ DifferIdle /\ ShotIdle
    /\ ConvIdle
    /\ arg \in GenInputs /\ ret = None /\ raised = FALSE

GenSchema ==
    /\ ret = None /\ ~raised
    /\ IF gen_schema_raises(arg)
       THEN raised' = TRUE /\ ret' = ret
       ELSE raised' = raised /\ ret' = Some(gen_schema(arg))
    /\ UNCHANGED <<merge_vars, conv_vars, arg, differ_vars, shot_vars>>

SpecGen == InitGen /\ [][GenSchema]_vars

---------------------------------------------------------------------------
(* Reading a RawSchema: its required names and its property names as sets, *)
(* its items node if it has one.                                           *)
Req(node) == IF node.required = None THEN {} ELSE Range(Get(node.required))
PropKeys(node) == IF node.properties = None THEN {} ELSE DOMAIN Get(node.properties)
HasItems(node) == node.items # None /\ Get(node.items) # <<>>
ItemsOf(node) == Get(node.items)[1]

(* Structural equality of two RawSchema trees: type_names and required as  *)
(* sets, properties and items recursively, format; an absent and an empty  *)
(* properties, required or items are the same.                             *)
RECURSIVE StructEq(_, _)
StructEq(x, y) ==
    /\ Range(x.type_names) = Range(y.type_names)
    /\ Req(x) = Req(y)
    /\ x.format = y.format
    /\ PropKeys(x) = PropKeys(y)
    /\ \A k \in PropKeys(x) : StructEq(Get(x.properties)[k], Get(y.properties)[k])
    /\ HasItems(x) = HasItems(y)
    /\ HasItems(x) => StructEq(ItemsOf(x), ItemsOf(y))

(* The same, of two documents of to_json_schema.                           *)
RECURSIVE DocEq(_, _)
DocEq(x, y) ==
    /\ Range(x.type.names) = Range(y.type.names)
    /\ x.format = y.format
    /\ (x.properties = None) = (y.properties = None)
    /\ x.additionalProperties = y.additionalProperties
    /\ x.properties # None =>
          /\ DOMAIN Get(x.properties) = DOMAIN Get(y.properties)
          /\ \A k \in DOMAIN Get(x.properties) :
                DocEq(Get(x.properties)[k], Get(y.properties)[k])
    /\ (x.required = None) = (y.required = None)
    /\ x.required # None => Range(Get(x.required)) = Range(Get(y.required))
    /\ (x.items = None) = (y.items = None)
    /\ x.items # None => DocEq(Get(x.items), Get(y.items))

(* Every reordering of a sequence.                                         *)
Perms(s) ==
    LET idx == DOMAIN s
        bij == {p \in [idx -> idx] : \A i, j \in idx : i # j => p[i] # p[j]}
    IN {[i \in idx |-> s[p[i]]] : p \in bij}

(* The left fold of _merge_schemas over gen_schema of a non-empty sequence *)
(* of values.                                                              *)
Fold(vs) == Get(MergeAll(None, [i \in DOMAIN vs |-> gen_schema(vs[i])]))

---------------------------------------------------------------------------
(* Properties of the merge engine.                                         *)

(* The keys present in every value of vs; a value that is no object has    *)
(* none.                                                                   *)
KeysInAll(vs) ==
    {k \in Keys : \A i \in DOMAIN vs : vs[i].kind = "object" /\ k \in DOMAIN vs[i].props}

(* The values observed under key k of the objects among vs.                *)
ChildValues(vs, k) ==
    LET having == SelectSeq(vs, LAMBDA v : v.kind = "object" /\ k \in DOMAIN v.props)
    IN [i \in DOMAIN having |-> having[i].props[k]]

RECURSIVE RequiredExact(_, _)
RequiredExact(node, vs) ==
    /\ Req(node) = KeysInAll(vs)
    /\ \A k \in PropKeys(node) :
          "object" \in Range(Get(node.properties)[k].type_names)
              => RequiredExact(Get(node.properties)[k], ChildValues(vs, k))

(* C1: after folding the schemas of object values v1..vn left to right,    *)
(* `required` is exactly the set of keys present in every vi, at the root  *)
(* and at every nested object node.                                        *)
C1_RequiredIsInAll ==
    (acc # None /\ \A i \in DOMAIN hist : hist[i].kind = "object")
        => RequiredExact(Get(acc), hist)

(* C2: a merge step never adds a name to the accumulator's `required`.     *)
C2_RequiredMonotone ==
    [][(acc # None /\ acc' # None) => Req(Get(acc')) \subseteq Req(Get(acc))]_vars

(* C3: merging is associative: merge(merge(a,b),c) is structurally equal   *)
(* to merge(a,merge(b,c)).                                                 *)
C3_Associative ==
    Len(hist) = 3 =>
        StructEq(Get(acc),
                 _merge_schemas(gen_schema(hist[1]),
                                _merge_schemas(gen_schema(hist[2]), gen_schema(hist[3]))))

(* The schemas gen_schema infers from the values of the model.             *)
InferredSchemas == {gen_schema(v) : v \in Values}

(* C4: merging is commutative: for the accumulator a and the schema b of   *)
(* any value, merge(a,b) is structurally equal to merge(b,a).              *)
C4_Commutative ==
    acc # None =>
        \A b \in InferredSchemas :
            StructEq(_merge_schemas(Get(acc), b), _merge_schemas(b, Get(acc)))

C4_Witness ==
    /\ n = 2
    /\ acc # None
    /\ Len(Get(acc).type_names) = 2
    /\ "object" \in Range(Get(acc).type_names)
    /\ "array" \in Range(Get(acc).type_names)
    /\ PropKeys(Get(acc)) # {}
    /\ HasItems(Get(acc))

(* C5: merging is idempotent: merge(a,a) has the type set, properties,     *)
(* required set, items and format of a.                                    *)
C5_Idempotent ==
    acc # None => StructEq(_merge_schemas(Get(acc), Get(acc)), Get(acc))

(* C6: the document of the folded schema is the same for every ordering of *)
(* the observations, and for every ordering of an observed array's         *)
(* elements.                                                               *)
C6_OrderIndependent ==
    acc # None =>
        /\ \A p \in Perms(hist) :
              DocEq(to_json_schema(Fold(p)), to_json_schema(Get(acc)))
        /\ (Len(hist) = 1 /\ hist[1].kind = "array") =>
              \A p \in Perms(hist[1].elems) :
                  DocEq(to_json_schema(gen_schema(JArr(p))), to_json_schema(Get(acc)))

(* C7: a value validates against the document of its own inferred schema.  *)
C7_RoundTrip ==
    Len(hist) = 1 => Validates(hist[1], to_json_schema(Get(acc)))

(* The result m of merging a and b, as the contract states it.             *)
RECURSIVE MergeContract(_, _, _)
MergeContract(a, b, m) ==
    /\ Range(m.type_names) = Range(a.type_names) \cup Range(b.type_names)
    /\ "object" \in Range(m.type_names) =>
          /\ m.properties # None
          /\ PropKeys(m) = PropKeys(a) \cup PropKeys(b)
          /\ Req(m) = PropKeys(a) \cap PropKeys(b)
          /\ \A k \in PropKeys(a) \cap PropKeys(b) :
                /\ Get(m.properties)[k] =
                       _merge_schemas(Get(a.properties)[k], Get(b.properties)[k])
                /\ MergeContract(Get(a.properties)[k], Get(b.properties)[k],
                                 Get(m.properties)[k])
          /\ \A k \in PropKeys(a) \ PropKeys(b) :
                Get(m.properties)[k] = Get(a.properties)[k]
          /\ \A k \in PropKeys(b) \ PropKeys(a) :
                Get(m.properties)[k] = Get(b.properties)[k]

(* C8: one merge of the accumulator a with the schema b of any value has   *)
(* the union of the type names; when `object` is among them its properties *)
(* are the union of both maps (a shared key merged recursively, a          *)
(* one-sided key carried over unchanged) and its required is the set of    *)
(* keys present in both operands' properties.                              *)
C8_MergeResult ==
    acc # None =>
        \A b \in InferredSchemas :
            MergeContract(Get(acc), b, _merge_schemas(Get(acc), b))

C8_Witness ==
    /\ n = 2
    /\ acc # None
    /\ Get(acc).type_names = <<"object">>
    /\ Req(Get(acc)) = {"a"}
    /\ PropKeys(Get(acc)) = {"a", "b"}
    /\ Len(Get(Get(acc).properties)["a"].type_names) = 2

(* required is a subset of the property names, at the node and below it.   *)
RECURSIVE RequiredWithinProperties(_)
RequiredWithinProperties(node) ==
    /\ Req(node) \subseteq PropKeys(node)
    /\ \A k \in PropKeys(node) : RequiredWithinProperties(Get(node.properties)[k])
    /\ HasItems(node) => RequiredWithinProperties(ItemsOf(node))

---------------------------------------------------------------------------
(* FormatDetector.  A string is matched character by character, as       *)
(* re.match does with each compiled pattern.                               *)
At(s, i) == SubSeq(s, i, i)
CharsOf(s) == {At(s, i) : i \in 1..Len(s)}
AllIn(s, lo, hi, C) == \A i \in lo..hi : At(s, i) \in C
Positions(s, c) == {i \in 1..Len(s) : At(s, i) = c}

Digit == CharsOf("0123456789")
Alpha == CharsOf("abcdefghijklmnopqrstuvwxyzABCDEFGHIJKLMNOPQRSTUVWXYZ")
HexDigit == CharsOf("0123456789abcdefABCDEF")
Whitespace == {" ", "\t", "\n", "\r", "\f"}

(* `$` matches at the end of the string and just before a newline that is  *)
(* its last character: the lengths of the prefixes a pattern ending in `$` *)
(* may cover.                                                              *)
Ends(s) ==
    {Len(s)} \cup (IF Len(s) > 0 /\ At(s, Len(s)) = "\n" THEN {Len(s) - 1} ELSE {})

(* ^[a-zA-Z0-9._%+-]+@[a-zA-Z0-9.-]+\.[a-zA-Z]{2,}$                        *)
EmailBody(s) ==
    \E at \in Positions(s, "@") :
        /\ at > 1
        /\ AllIn(s, 1, at - 1, Alpha \cup Digit \cup CharsOf("._%+-"))
        /\ \E dot \in Positions(s, ".") :
              /\ dot >= at + 2
              /\ AllIn(s, at + 1, dot - 1, Alpha \cup Digit \cup CharsOf(".-"))
              /\ Len(s) - dot >= 2
              /\ AllIn(s, dot + 1, Len(s), Alpha)
EMAIL_PATTERN(value) == \E e \in Ends(value) : EmailBody(SubSeq(value, 1, e))

(* ^[0-9a-f]{8}-[0-9a-f]{4}-[1-5][0-9a-f]{3}-[89ab][0-9a-f]{3}-[0-9a-f]{12}$ *)
(* with re.I                                                               *)
UuidBody(s) ==
    /\ Len(s) = 36
    /\ \A i \in {9, 14, 19, 24} : At(s, i) = "-"
    /\ At(s, 15) \in CharsOf("12345")
    /\ At(s, 20) \in CharsOf("89abAB")
    /\ AllIn(s, 1, 8, HexDigit) /\ AllIn(s, 10, 13, HexDigit)
    /\ AllIn(s, 16, 18, HexDigit) /\ AllIn(s, 21, 23, HexDigit)
    /\ AllIn(s, 25, 36, HexDigit)
UUID_PATTERN(value) == \E e \in Ends(value) : UuidBody(SubSeq(value, 1, e))

(* \d{4}-\d{2}-\d{2} at the start of s                                     *)
DatePrefix(s) ==
    /\ Len(s) >= 10
    /\ AllIn(s, 1, 4, Digit) /\ At(s, 5) = "-"
    /\ AllIn(s, 6, 7, Digit) /\ At(s, 8) = "-"
    /\ AllIn(s, 9, 10, Digit)

(* ^\d{4}-\d{2}-\d{2}T\d{2}:\d{2}:\d{2}(\.\d+)?(Z|[+-]\d{2}:\d{2})$        *)
DatetimeBody(s) ==
    /\ Len(s) >= 20
    /\ DatePrefix(s)
    /\ At(s, 11) = "T"
    /\ AllIn(s, 12, 13, Digit) /\ At(s, 14) = ":"
    /\ AllIn(s, 15, 16, Digit) /\ At(s, 17) = ":"
    /\ AllIn(s, 18, 19, Digit)
    /\ \E f \in 19..Len(s) :
          /\ f > 19 => (f >= 21 /\ At(s, 20) = "." /\ AllIn(s, 21, f, Digit))
          /\ \/ Len(s) = f + 1 /\ At(s, f + 1) = "Z"
             \/ /\ Len(s) = f + 6
                /\ At(s, f + 1) \in {"+", "-"}
                /\ AllIn(s, f + 2, f + 3, Digit) /\ At(s, f + 4) = ":"
                /\ AllIn(s, f + 5, f + 6, Digit)
DATETIME_PATTERN(value) == \E e \in Ends(value) : DatetimeBody(SubSeq(value, 1, e))

(* DATE_PATTERN matching any string that starts with a date.               *)
DatePatternUnanchored(value) == DatePrefix(value)

(* ^\d{4}-\d{2}-\d{2}$                                                     *)
DATE_PATTERN(value) ==
    \E e \in Ends(value) : e = 10 /\ DatePrefix(SubSeq(value, 1, e))

(* ^https?://[^\s/$.?#].[^\s]*$ with re.I                                  *)
UriBody(s) ==
    \E p \in {7, 8} :
        /\ Len(s) >= p + 2
        /\ At(s, 1) \in {"h", "H"} /\ At(s, 2) \in {"t", "T"}
        /\ At(s, 3) \in {"t", "T"} /\ At(s, 4) \in {"p", "P"}
        /\ p = 8 => At(s, 5) \in {"s", "S"}
        /\ SubSeq(s, p - 2, p) = "://"
        /\ At(s, p + 1) \notin Whitespace \cup CharsOf("/$.?#")
        /\ At(s, p + 2) # "\n"
        /\ \A i \in (p + 3)..Len(s) : At(s, i) \notin Whitespace
URI_PATTERN(value) == \E e \in Ends(value) : UriBody(SubSeq(value, 1, e))

(* 25[0-5]|2[0-4][0-9]|[01]?[0-9][0-9]?                                    *)
Octet(t) ==
    /\ Len(t) \in 1..3
    /\ AllIn(t, 1, Len(t), Digit)
    /\ Len(t) = 3 =>
          \/ At(t, 1) \in {"0", "1"}
          \/ At(t, 1) = "2" /\ At(t, 2) \in CharsOf("01234")
          \/ SubSeq(t, 1, 2) = "25" /\ At(t, 3) \in CharsOf("012345")

(* ^(?:octet\.){3}octet$                                                   *)
Ipv4Body(s) ==
    LET dots == Positions(s, ".")
    IN /\ Cardinality(dots) = 3
       /\ LET d1 == CHOOSE d \in dots : \A x \in dots : d <= x
              d3 == CHOOSE d \in dots : \A x \in dots : d >= x
              d2 == CHOOSE d \in dots : d # d1 /\ d # d3
          IN /\ Octet(SubSeq(s, 1, d1 - 1))
             /\ Octet(SubSeq(s, d1 + 1, d2 - 1))
             /\ Octet(SubSeq(s, d2 + 1, d3 - 1))
             /\ Octet(SubSeq(s, d3 + 1, Len(s)))
IPV4_PATTERN(value) == \E e \in Ends(value) : Ipv4Body(SubSeq(value, 1, e))

(* detect_format: None for a value that is no string or is empty, else the *)
(* tag of the first pattern that matches.                                  *)
detect_format(value) ==
    IF value.kind # "string" \/ value.str = "" THEN None
    ELSE IF EMAIL_PATTERN(value.str) THEN Some("email")
    ELSE IF UUID_PATTERN(value.str) THEN Some("uuid")
    ELSE IF DATETIME_PATTERN(value.str) THEN Some("date-time")
    ELSE IF DATE_PATTERN(value.str) THEN Some("date")
    ELSE IF URI_PATTERN(value.str) THEN Some("uri")
    ELSE IF IPV4_PATTERN(value.str) THEN Some("ipv4")
    ELSE None

(* A single call FormatDetector.detect_format(arg), on strings that match  *)
(* a pattern, nearly match one or look like two, and on values that are no *)
(* strings.                                                                *)
DetectStrings ==
    { EmailStr, UuidStr, DateTimeStr, DateStr, UriStr, Ipv4Str, PlainStr, "",
      "a@b.co", "a@b.c.de", "john@example", "john@@example.com", "@example.com",
      "john@example.c", "a@.de", "john@example.com\n", " john@example.com",
      "2024-12-31@example.com", "1.2.3.4@5.6.7.cc",
      "550E8400-E29B-41D4-A716-446655440000", "550e8400-e29b-61d4-a716-446655440000",
      "550e8400-e29b-41d4-c716-446655440000",
      "2024-12-31T23:59:59.123+02:00", "2024-12-31T23:59:59", "2024-12-31t23:59:59Z",
      "2024-12-31T23:59:59.Z", "2024-12-31T23:59:59-0200",
      "2024-12-31\n", "2024-12-31\n\n", "2024-1-31",
      "HTTP://EXAMPLE.ORG", "https://a", "https://ab", "http://", "http:///x",
      "ftp://example.org", "http://exa mple.org", "http://a\nb", "http://ab\n",
      "http://a@b.co", "http://192.168.0.1", "https://2024-12-31",
      "256.1.1.1", "1.2.3", "1.2.3.4.5", "0.0.0.0", "255.255.255.255", "01.2.3.4",
      "1..3.4", "299.1.1.1" }

DetectInputs ==
    {JStr(s) : s \in DetectStrings}
    \cup {JNull, JBool, JInt, JNum, JArr(<<>>), JObj(<<>>, <<>>), JArr(<<JStr(EmailStr)>>)}

InitDetect ==
    /\ acc = None /\ hist = <<>> /\ n = 0
    /\ DifferIdle /\ ShotIdle
    /\ ConvIdle
    /\ arg \in DetectInputs /\ ret = None /\ raised = FALSE

DetectFormat ==
    /\ ret = None
    /\ ret' = Some(detect_format(arg))
    /\ UNCHANGED <<merge_vars, conv_vars, arg, raised, differ_vars, shot_vars>>

SpecDetect == InitDetect /\ [][DetectFormat]_vars

---------------------------------------------------------------------------
(* The genson base builder.  A node is the list of its active strategies,  *)
(* in the order they became active; a strategy has the kind of value it    *)
(* matches, and for numbers the JSON type seen so far, for arrays the node *)
(* of the elements, for objects the node of each property and the keys     *)
(* present in every object.                                                *)
NewStrategy(kind) ==
    [kind |-> kind, js |-> IF kind = "number" THEN "integer" ELSE kind,
     items |-> <<>>, props |-> <<>>, required |-> None]

StrategyKind(v) == IF v.kind \in {"integer", "number"} THEN "number" ELSE v.kind

RECURSIVE NodeAdd(_, _)
RECURSIVE NodeAddAll(_, _)
NodeAddAll(node, vs) ==
    IF vs = <<>> THEN node ELSE NodeAddAll(NodeAdd(node, vs[1]), Tail(vs))

StrategyAdd(st, v) ==
    IF st.kind = "number"
    THEN [st EXCEPT !.js = IF v.kind = "number" THEN "number" ELSE @]
    ELSE IF st.kind = "array"
    THEN [st EXCEPT !.items = NodeAddAll(@, v.elems)]
    ELSE IF st.kind = "object"
    THEN [st EXCEPT
            !.props = [k \in DOMAIN st.props \cup DOMAIN v.props |->
                          IF k \in DOMAIN v.props
                          THEN NodeAdd(IF k \in DOMAIN st.props THEN st.props[k] ELSE <<>>,
                                       v.props[k])
                          ELSE st.props[k]],
            !.required = IF @ = None THEN Some(DOMAIN v.props)
                         ELSE Some(Get(@) \cap DOMAIN v.props)]
    ELSE st

NodeAdd(node, v) ==
    LET kind == StrategyKind(v)
        active == {i \in DOMAIN node : node[i].kind = kind}
        base == IF active = {} THEN Append(node, NewStrategy(kind)) ELSE node
        i == CHOOSE j \in DOMAIN base : base[j].kind = kind
    IN [base EXCEPT ![i] = StrategyAdd(base[i], v)]

(* A document of the builder: every keyword is present (Some) or absent.   *)
GDoc ==
    [type |-> None, properties |-> None, required |-> None, items |-> None,
     anyOf |-> None, format |-> None, examples |-> None, schema |-> None,
     vocabulary |-> None]

(* The `$schema` of a builder made with no schema_uri.                     *)
DEFAULT_URI == "http://json-schema.org/schema#"

(* sorted() of a set of JSON type names.                                   *)
TypeOrder == <<"array", "boolean", "integer", "null", "number", "object", "string">>
SortedTypes(S) == SelectSeq(TypeOrder, LAMBDA t : t \in S)

RECURSIVE NodeToSchema(_)
StrategyToSchema(st) ==
    IF st.kind = "array"
    THEN [GDoc EXCEPT !.type = Some(TypeOf(<<"array">>)),
                      !.items = IF st.items # <<>> THEN Some(NodeToSchema(st.items))
                                ELSE None]
    ELSE IF st.kind = "object"
    THEN [GDoc EXCEPT !.type = Some(TypeOf(<<"object">>)),
                      !.properties =
                          IF DOMAIN st.props # {}
                          THEN Some([k \in DOMAIN st.props |-> NodeToSchema(st.props[k])])
                          ELSE None,
                      !.required =
                          IF st.required # None /\ Get(st.required) # {}
                          THEN Some(Sorted(Get(st.required))) ELSE None]
    ELSE [GDoc EXCEPT !.type = Some(TypeOf(<<st.js>>))]

NodeToSchema(node) ==
    LET generated == [i \in DOMAIN node |-> StrategyToSchema(node[i])]
        only_type(d) == d = [GDoc EXCEPT !.type = d.type]
        types == {generated[i].type[1].names[1] :
                      i \in {j \in DOMAIN generated : only_type(generated[j])}}
        others == SelectSeq(generated, LAMBDA d : ~only_type(d))
        typed == IF types = {} THEN <<>>
                 ELSE <<[GDoc EXCEPT !.type = Some(TypeOf(SortedTypes(types)))]>>
        generated_schemas == typed \o others
    IN IF Len(generated_schemas) = 1 THEN generated_schemas[1]
       ELSE IF generated_schemas # <<>> THEN [GDoc EXCEPT !.anyOf = Some(generated_schemas)]
       ELSE GDoc

(* __init__: `if schema_uri: super().__init__(schema_uri)`, else the base  *)
(* builder is made with no argument and keeps its default.                 *)
BaseUri(uri) == IF uri # None /\ Get(uri) # "" THEN Get(uri) ELSE DEFAULT_URI

(* SchemaBuilder.to_schema: the builder's `$schema`, then the keywords of  *)
(* the root node.                                                          *)
BuilderToSchema(node, uri) ==
    [NodeToSchema(node) EXCEPT !.schema = Some(BaseUri(uri))]

---------------------------------------------------------------------------
(* JsonToSchemaConverter.  Its two caches travel together as a record      *)
(* [formats, examples].                                                    *)

(* Python's == on two values: True == 1 == 1.0, sequences element by       *)
(* element, mappings key by key whatever the order of their keys.          *)
RECURSIVE PyEq(_, _)
PyEq(x, y) ==
    LET numeric == {"boolean", "integer", "number"}
    IN IF x.kind \in numeric /\ y.kind \in numeric THEN x.str = y.str
       ELSE /\ x.kind = y.kind
            /\ x.str = y.str
            /\ Len(x.elems) = Len(y.elems)
            /\ \A i \in DOMAIN x.elems : PyEq(x.elems[i], y.elems[i])
            /\ DOMAIN x.props = DOMAIN y.props
            /\ \A k \in DOMAIN x.props : PyEq(x.props[k], y.props[k])

(* The mode test that lets every mode through.                             *)
FormatEnabledAlways(fmode) == TRUE

(* self._format_mode in ("on", "safe")                                     *)
FormatEnabled(fmode) == fmode \in {"on", "safe"}

(* self._format_cache.setdefault(path, set()).add(detected)                *)
CacheAdd(cache, path, detected) ==
    [p \in DOMAIN cache \cup {path} |->
        IF p = path THEN (IF p \in DOMAIN cache THEN cache[p] ELSE {}) \cup {detected}
        ELSE cache[p]]

(* _add_example without the search for an equal value.                     *)
AddExampleNoDedup(cache, lim, path, value) ==
    IF lim <= 0 THEN cache
    ELSE LET bucket == IF path \in DOMAIN cache THEN cache[path] ELSE <<>>
         IN [p \in DOMAIN cache \cup {path} |->
                IF p = path
                THEN (IF Len(bucket) >= lim THEN bucket ELSE Append(bucket, value))
                ELSE cache[p]]

(* _add_example: the bucket of the path is created, and the value appended *)
(* unless the bucket is full or holds an equal value.                      *)
_add_example(cache, lim, path, value) ==
    IF lim <= 0 THEN cache
    ELSE LET bucket == IF path \in DOMAIN cache THEN cache[path] ELSE <<>>
             skip == \/ Len(bucket) >= lim
                     \/ \E i \in DOMAIN bucket : PyEq(bucket[i], value)
         IN [p \in DOMAIN cache \cup {path} |->
                IF p = path THEN (IF skip THEN bucket ELSE Append(bucket, value))
                ELSE cache[p]]

RECURSIVE _process(_, _, _, _, _)
RECURSIVE ProcessKeys(_, _, _, _, _, _)
RECURSIVE ProcessItems(_, _, _, _, _, _)

(* for key, value in obj.items(): self._process(value, f"{path}.{key}")    *)
ProcessKeys(c, fmode, lim, obj, path, keys) ==
    IF keys = <<>> THEN c
    ELSE ProcessKeys(_process(c, fmode, lim, obj.props[keys[1]], path \o "." \o keys[1]),
                     fmode, lim, obj, path, Tail(keys))

(* for i, item in enumerate(obj): self._process(item, f"{path}[{i}]")      *)
ProcessItems(c, fmode, lim, obj, path, i) ==
    IF i > Len(obj.elems) THEN c
    ELSE ProcessItems(_process(c, fmode, lim, obj.elems[i],
                               path \o "[" \o ToString(i - 1) \o "]"),
                      fmode, lim, obj, path, i + 1)

_process(c, fmode, lim, obj, path) ==
    LET examples == IF lim > 0 THEN _add_example(c.examples, lim, path, obj)
                    ELSE c.examples
        detected == IF obj.kind = "string" /\ FormatEnabled(fmode)
                    THEN detect_format(obj) ELSE None
        formats == IF detected # None THEN CacheAdd(c.formats, path, Get(detected))
                   ELSE c.formats
        c1 == [formats |-> formats, examples |-> examples]
    IN IF obj.kind = "object" THEN ProcessKeys(c1, fmode, lim, obj, path, obj.keys)
       ELSE IF obj.kind = "array" THEN ProcessItems(c1, fmode, lim, obj, path, 1)
       ELSE c1

(* schema.get("type") == t                                                 *)
NodeTypeIs(schema, t) ==
    schema.type # None /\ ~Get(schema.type).list /\ Get(schema.type).names = <<t>>

(* FormatOf emitting for every node whose type names include "string".     *)
FormatOfAnyString(c, fmode, schema, path) ==
    LET detected_set == IF path \in DOMAIN c.formats THEN c.formats[path] ELSE {}
    IN IF /\ schema.type # None /\ "string" \in Range(Get(schema.type).names)
          /\ FormatEnabled(fmode)
          /\ Cardinality(detected_set) = 1
       THEN Some(CHOOSE f \in detected_set : TRUE)
       ELSE schema.format

(* The `format` of a node after _inject_annotations (lines 148-152).       *)
FormatOf(c, fmode, schema, path) ==
    LET detected_set == IF path \in DOMAIN c.formats THEN c.formats[path] ELSE {}
    IN IF /\ NodeTypeIs(schema, "string")
          /\ FormatEnabled(fmode)
          /\ Cardinality(detected_set) = 1
       THEN Some(CHOOSE f \in detected_set : TRUE)
       ELSE schema.format

(* The `examples` of a node after _inject_annotations (lines 154-158).     *)
ExamplesOf(c, lim, schema, path) ==
    LET ex == IF path \in DOMAIN c.examples THEN c.examples[path] ELSE <<>>
    IN IF lim > 0 /\ ex # <<>>
       THEN Some(SubSeq(ex, 1, IF Len(ex) < lim THEN Len(ex) ELSE lim))
       ELSE schema.examples

RECURSIVE _inject_annotations(_, _, _, _, _)
_inject_annotations(c, fmode, lim, schema, path) ==
    [schema EXCEPT
        !.format = FormatOf(c, fmode, schema, path),
        !.examples = ExamplesOf(c, lim, schema, path),
        !.properties =
            IF NodeTypeIs(schema, "object") /\ @ # None
            THEN Some([k \in DOMAIN Get(@) |->
                         _inject_annotations(c, fmode, lim, Get(@)[k], path \o "." \o k)])
            ELSE @,
        !.items =
            IF NodeTypeIs(schema, "array") /\ @ # None
            THEN Some(_inject_annotations(c, fmode, lim, Get(@), path \o "[0]"))
            ELSE @,
        !.anyOf =
            IF @ # None
            THEN Some([i \in DOMAIN Get(@) |->
                         _inject_annotations(c, fmode, lim, Get(@)[i], path)])
            ELSE @]

(* The `$vocabulary` block with assertions left on.                        *)
VocabularyAsserting ==
    [core |-> TRUE, applicator |-> TRUE, validation |-> TRUE, meta_data |-> TRUE,
     format_annotation |-> TRUE, format_assertion |-> TRUE]

(* The `$vocabulary` block of safe mode.                                   *)
SafeVocabulary ==
    [core |-> TRUE, applicator |-> TRUE, validation |-> TRUE, meta_data |-> TRUE,
     format_annotation |-> TRUE, format_assertion |-> FALSE]

DRAFT_2020_12 == "https://json-schema.org/draft/2020-12/schema"

to_schema(node, uri, c, fmode, lim) ==
    LET schema == BuilderToSchema(node, uri)
        safe == IF fmode = "safe"
                THEN [schema EXCEPT
                        !.schema = IF @ = None THEN Some(DRAFT_2020_12) ELSE @,
                        !.vocabulary = Some(SafeVocabulary)]
                ELSE schema
    IN _inject_annotations(c, fmode, lim, safe, "root")

---------------------------------------------------------------------------
(* The converter's calls: add_object any number of times, to_schema at any *)
(* time.                                                                   *)
MaxAdds == 2     \* the most add_object calls on one converter
MaxElems == 2    \* the longest array handed to the converter

FormatModes == {"off", "on", "safe"}

ConvStrings == {JStr(PlainStr), JStr(EmailStr), JStr(UuidStr)}

ConvValues ==
    ConvStrings \cup {JNull}
    \cup {JObj(<<"v">>, [v |-> x]) : x \in ConvStrings \cup {JNull}}
    \cup {JArr(es) : es \in SeqsUpTo({JStr(EmailStr), JStr(UuidStr)}, MaxElems)}
    \cup {JObj(<<"v">>, [v |-> JArr(<<JStr(EmailStr)>>)]), JObj(<<>>, <<>>)}

InitConv ==
    /\ acc = None /\ hist = <<>> /\ n = 0
    /\ DifferIdle /\ ShotIdle
    /\ builder = <<>>
    /\ fcache = <<>>
    /\ mode \in FormatModes
    /\ seen = <<>>
    /\ out = None
    /\ schema_uri = None /\ limit = 0 /\ ecache = <<>>
    /\ CallIdle

(* conv.add_object(obj), at most `most` times on one converter             *)
AddObjectUpTo(obj, most) ==
    /\ Len(seen) < most
    /\ builder' = NodeAdd(builder, obj)
    /\ LET c == _process([formats |-> fcache, examples |-> ecache], mode, limit,
                         obj, "root")
       IN fcache' = c.formats /\ ecache' = c.examples
    /\ seen' = Append(seen, obj)
    /\ out' = None
    /\ UNCHANGED <<merge_vars, mode, schema_uri, limit, call_vars, differ_vars, shot_vars>>

AddObject(obj) == AddObjectUpTo(obj, MaxAdds)

(* schema = conv.to_schema()                                               *)
ToSchema ==
    /\ out = None
    /\ out' = Some(to_schema(builder, schema_uri,
                             [formats |-> fcache, examples |-> ecache], mode, limit))
    /\ UNCHANGED <<merge_vars, builder, fcache, mode, seen, schema_uri, limit, ecache>>
    /\ UNCHANGED <<call_vars, differ_vars, shot_vars>>

NextConv ==
    \/ \E obj \in ConvValues : AddObject(obj)
    \/ ToSchema

SpecConv == InitConv /\ [][NextConv]_vars

(* A process that either runs a merge session or uses one converter: the   *)
(* documents of both engines.                                              *)
NextDocs ==
    \/ \E v \in Values : mode = "on" /\ seen = <<>> /\ out = None /\ Infer(v, FALSE)
    \/ \E v \in Values : Merge(v, FALSE, MaxObs)
    \/ \E obj \in ConvValues : acc = None /\ AddObject(obj)
    \/ acc = None /\ ToSchema

SpecDocs == InitConv /\ [][NextDocs]_vars

(* Converters made with and without an explicit schema_uri.                *)
CustomUri == "http://json-schema.org/draft-07/schema#"

InitSafe ==
    /\ acc = None /\ hist = <<>> /\ n = 0
    /\ DifferIdle /\ ShotIdle
    /\ builder = <<>>
    /\ fcache = <<>>
    /\ mode \in FormatModes
    /\ seen = <<>>
    /\ out = None
    /\ schema_uri \in {None, Some(""), Some(CustomUri)}
    /\ limit = 0
    /\ ecache = <<>>
    /\ CallIdle

SafeValues == {JObj(<<"v">>, [v |-> JStr(PlainStr)]), JStr(EmailStr), JNull}

NextSafe ==
    \/ \E obj \in SafeValues : AddObject(obj)
    \/ ToSchema

SpecSafe == InitSafe /\ [][NextSafe]_vars

---------------------------------------------------------------------------
(* Converters that collect examples.  A number's str is its value in       *)
(* decimal: 1, True and 1.0 are three values that Python's == holds equal. *)
JIntOf(i) == [JInt EXCEPT !.str = ToString(i)]
JBoolOf(b) == [JBool EXCEPT !.str = IF b THEN "1" ELSE "0"]
JNumOf(i) == [JNum EXCEPT !.str = ToString(i)]

MaxLimit == 2    \* the largest examples limit

(* JsonToSchemaConverter(format=fmode, examples=lim) for lim in 1..MaxLimit *)
InitExamples(fmode) ==
    /\ acc = None /\ hist = <<>> /\ n = 0
    /\ DifferIdle /\ ShotIdle
    /\ builder = <<>>
    /\ fcache = <<>>
    /\ mode = fmode
    /\ seen = <<>>
    /\ out = None
    /\ schema_uri = None
    /\ limit \in 1..MaxLimit
    /\ ecache = <<>>
    /\ CallIdle

(* Arrays whose elements differ from index to index, handed to a converter *)
(* with format "on".                                                       *)
ItemValues ==
    { JArr(<<JStr(EmailStr), JStr(UuidStr)>>),
      JArr(<<JStr(EmailStr)>>),
      JArr(<<JStr("x"), JStr(EmailStr)>>),
      JArr(<<JObj(<<>>, <<>>), JObj(<<"a">>, [a |-> JStr("x")])>>),
      JArr(<<JArr(<<>>), JArr(<<JIntOf(1)>>)>>),
      JArr(<<>>),
      JObj(<<"a">>, [a |-> JArr(<<JIntOf(1), JNumOf(1), JIntOf(2)>>)]),
      JStr(EmailStr) }

MaxExAdds == 4   \* the most add_object calls on a converter of SpecExamples

(* The values of test_examples_limit_and_uniqueness, and 1 and True, which *)
(* are equal.                                                              *)
ExValues ==
    { JStr("x"), JStr("y"), JStr("z"), JIntOf(1), JBoolOf(TRUE),
      JObj(<<"a">>, [a |-> JStr("x")]),
      JArr(<<JStr("x"), JStr("y")>>) }

InitEx == InitExamples("off")

NextEx ==
    \/ \E obj \in ExValues : AddObjectUpTo(obj, MaxExAdds)
    \/ ToSchema

SpecExamples == InitEx /\ [][NextEx]_vars

InitItems == InitExamples("on")

NextItems ==
    \/ \E obj \in ItemValues : AddObject(obj)
    \/ ToSchema

SpecItems == InitItems /\ [][NextItems]_vars

---------------------------------------------------------------------------
(* Properties of the converter.                                            *)

(* The formats detected among the strings of a set of values.              *)
DetectedAmong(vs) ==
    {Get(detect_format(v)) : v \in {w \in vs : detect_format(w) # None}}

(* The values observed under key k, and as array elements, of the values   *)
(* observed at one logical path: the elements at every index of an array   *)
(* are one logical path.                                                   *)
ObservedUnder(vs, k) ==
    {v.props[k] : v \in {w \in vs : w.kind = "object" /\ k \in DOMAIN w.props}}
ObservedElements(vs) ==
    UNION {Range(v.elems) : v \in {w \in vs : w.kind = "array"}}

RECURSIVE FormatSafe(_, _)
FormatSafe(doc, vs) ==
    /\ Cardinality(DetectedAmong(vs)) >= 2 => doc.format = None
    /\ doc.properties # None =>
          \A k \in DOMAIN Get(doc.properties) :
              FormatSafe(Get(doc.properties)[k], ObservedUnder(vs, k))
    /\ doc.items # None => FormatSafe(Get(doc.items), ObservedElements(vs))
    /\ doc.anyOf # None =>
          \A i \in DOMAIN Get(doc.anyOf) : FormatSafe(Get(doc.anyOf)[i], vs)

(* C10: in mode "on" or "safe", a node of the returned schema has no       *)
(* `format` when two strings with different detected formats were observed *)
(* at its logical path.                                                    *)
C10_FormatSafety ==
    (out # None /\ mode \in {"on", "safe"}) => FormatSafe(Get(out), Range(seen))

(* The strings among vs that match no pattern.                             *)
UnmatchedAmong(vs) == {v \in vs : v.kind = "string" /\ detect_format(v) = None}

RECURSIVE NoFormatWhereUnmatched(_, _)
NoFormatWhereUnmatched(doc, vs) ==
    /\ UnmatchedAmong(vs) # {} => doc.format = None
    /\ doc.properties # None =>
          \A k \in DOMAIN Get(doc.properties) :
              NoFormatWhereUnmatched(Get(doc.properties)[k], ObservedUnder(vs, k))
    /\ doc.items # None => NoFormatWhereUnmatched(Get(doc.items), ObservedElements(vs))
    /\ doc.anyOf # None =>
          \A i \in DOMAIN Get(doc.anyOf) : NoFormatWhereUnmatched(Get(doc.anyOf)[i], vs)

(* C11: a node of the returned schema has no `format` when some string     *)
(* observed at its logical path matched no pattern, even if every other    *)
(* string observed there had one and the same format.                      *)
C11_UnmatchedStringClearsFormat ==
    out # None => NoFormatWhereUnmatched(Get(out), Range(seen))

(* The elements, at every index, of the arrays among a sequence of values, *)
(* in the order they were observed.                                        *)
RECURSIVE ElementsOfAll(_)
ElementsOfAll(vs) ==
    IF vs = <<>> THEN <<>>
    ELSE (IF vs[1].kind = "array" THEN vs[1].elems ELSE <<>>) \o ElementsOfAll(Tail(vs))

(* The first lim values of vs that are pairwise unequal, in order.         *)
RECURSIVE FirstDistinctFrom(_, _, _)
FirstDistinctFrom(kept, vs, lim) ==
    IF vs = <<>> \/ Len(kept) >= lim THEN kept
    ELSE IF \E i \in DOMAIN kept : PyEq(kept[i], vs[1])
         THEN FirstDistinctFrom(kept, Tail(vs), lim)
         ELSE FirstDistinctFrom(Append(kept, vs[1]), Tail(vs), lim)
FirstDistinct(vs, lim) == FirstDistinctFrom(<<>>, vs, lim)

(* Every `items` node of doc has the format and the examples of one slot   *)
(* that holds what was recorded for the elements at all indices; vs are    *)
(* the values observed at doc's path, in order.                            *)
RECURSIVE ItemsFromAllIndices(_, _)
ItemsFromAllIndices(doc, vs) ==
    /\ doc.items # None =>
          LET items == Get(doc.items)
              es == ElementsOfAll(vs)
              formats == DetectedAmong(Range(es))
          IN /\ items.format =
                    IF /\ NodeTypeIs(items, "string") /\ FormatEnabled(mode)
                       /\ Cardinality(formats) = 1
                    THEN Some(CHOOSE f \in formats : TRUE) ELSE None
             /\ items.examples =
                    IF limit > 0 /\ es # <<>> THEN Some(FirstDistinct(es, limit))
                    ELSE None
             /\ ItemsFromAllIndices(items, es)
    /\ doc.properties # None =>
          \A k \in DOMAIN Get(doc.properties) :
              ItemsFromAllIndices(Get(doc.properties)[k], ChildValues(vs, k))
    /\ doc.anyOf # None =>
          \A i \in DOMAIN Get(doc.anyOf) : ItemsFromAllIndices(Get(doc.anyOf)[i], vs)

(* C12: the `items` node of an array takes its format and its examples     *)
(* from one slot that holds the formats and example values recorded for    *)
(* the array's elements at every index, in every add_object call.          *)
C12_ArrayPathCollapse ==
    out # None => ItemsFromAllIndices(Get(out), seen)

(* A document of to_json_schema carries `format` only where its type is    *)
(* the single name "string".                                               *)
RECURSIVE FormatOnlyOnStringDoc(_)
FormatOnlyOnStringDoc(doc) ==
    /\ doc.format # None => doc.type = TypeOf(<<"string">>)
    /\ doc.properties # None =>
          \A k \in DOMAIN Get(doc.properties) :
              FormatOnlyOnStringDoc(Get(doc.properties)[k])
    /\ doc.items # None => FormatOnlyOnStringDoc(Get(doc.items))

(* The same, of a document of the converter.                               *)
RECURSIVE FormatOnlyOnString(_)
FormatOnlyOnString(doc) ==
    /\ doc.format # None => doc.type = Some(TypeOf(<<"string">>))
    /\ doc.properties # None =>
          \A k \in DOMAIN Get(doc.properties) : FormatOnlyOnString(Get(doc.properties)[k])
    /\ doc.items # None => FormatOnlyOnString(Get(doc.items))
    /\ doc.anyOf # None =>
          \A i \in DOMAIN Get(doc.anyOf) : FormatOnlyOnString(Get(doc.anyOf)[i])

RECURSIVE NoFormatAnywhere(_)
NoFormatAnywhere(doc) ==
    /\ doc.format = None
    /\ doc.properties # None =>
          \A k \in DOMAIN Get(doc.properties) : NoFormatAnywhere(Get(doc.properties)[k])
    /\ doc.items # None => NoFormatAnywhere(Get(doc.items))
    /\ doc.anyOf # None =>
          \A i \in DOMAIN Get(doc.anyOf) : NoFormatAnywhere(Get(doc.anyOf)[i])

(* C14: with format mode "off" no node of the returned schema, at any      *)
(* depth, carries `format`, whatever strings were observed.                *)
C14_OffEmitsNoFormat ==
    (out # None /\ mode = "off") => NoFormatAnywhere(Get(out))

C14_Witness ==
    /\ mode = "off"
    /\ out # None
    /\ seen = <<JStr(EmailStr), JObj(<<"v">>, [v |-> JArr(<<JStr(EmailStr)>>)])>>
    /\ Get(out).anyOf # None

(* C15: a document returned in mode "safe" has a `$vocabulary` block with  *)
(* format-assertion false and format-annotation true; a document returned  *)
(* in mode "on" or "off" has no `$vocabulary`.                             *)
C15_SafeVocabulary ==
    out # None =>
        IF mode = "safe"
        THEN /\ Get(out).vocabulary # None
             /\ Get(Get(out).vocabulary).format_assertion = FALSE
             /\ Get(Get(out).vocabulary).format_annotation = TRUE
        ELSE Get(out).vocabulary = None

C15_Witness ==
    /\ mode = "safe"
    /\ out # None
    /\ seen = <<JObj(<<"v">>, [v |-> JStr(PlainStr)])>>
    /\ Get(out).vocabulary = Some(SafeVocabulary)

(* C16: in mode "safe" the `$schema` of the returned document is the       *)
(* schema_uri given to the constructor, and the 2020-12 meta-schema URI    *)
(* when none was given (an empty schema_uri counts as none, as __init__    *)
(* takes it).                                                              *)
C16_SafeSchemaUri ==
    (out # None /\ mode = "safe") =>
        Get(out).schema =
            Some(IF schema_uri # None /\ Get(schema_uri) # "" THEN Get(schema_uri)
                 ELSE DRAFT_2020_12)

(* Every (path, value) that _process visits in a value, in the order it    *)
(* visits them.                                                            *)
RECURSIVE Flatten(_)
Flatten(ss) == IF ss = <<>> THEN <<>> ELSE ss[1] \o Flatten(Tail(ss))

RECURSIVE Observations(_, _)
Observations(v, path) ==
    <<[path |-> path, value |-> v]>>
    \o Flatten([i \in DOMAIN v.keys |->
                   Observations(v.props[v.keys[i]], path \o "." \o v.keys[i])])
    \o Flatten([i \in DOMAIN v.elems |->
                   Observations(v.elems[i], path \o "[" \o ToString(i - 1) \o "]")])

AllObservations(vs) == Flatten([i \in DOMAIN vs |-> Observations(vs[i], "root")])

ObservedAt(obs, p) ==
    LET at == SelectSeq(obs, LAMBDA o : o.path = p)
    IN [i \in DOMAIN at |-> at[i].value]

(* C17: with limit N > 0, every path observed has an example list; each    *)
(* list has at most N entries, no two of them equal, and is the first N    *)
(* distinct values observed at its path, in observation order.             *)
C17_ExampleCache ==
    limit > 0 =>
        LET obs == AllObservations(seen)
        IN /\ DOMAIN ecache = {obs[i].path : i \in DOMAIN obs}
           /\ \A p \in DOMAIN ecache :
                 /\ Len(ecache[p]) <= limit
                 /\ \A i, j \in DOMAIN ecache[p] :
                       i # j => ~PyEq(ecache[p][i], ecache[p][j])
                 /\ ecache[p] = FirstDistinct(ObservedAt(obs, p), limit)

C17_Witness ==
    /\ limit = 2
    /\ seen = <<JStr("x"), JStr("x"), JStr("y"), JStr("z")>>
    /\ ecache = [p \in {"root"} |-> <<JStr("x"), JStr("y")>>]

(* Every node of doc has between 1 and limit examples, each a value        *)
(* observed at the node's location; vs are the values observed there.      *)
RECURSIVE ExamplesEverywhere(_, _)
ExamplesEverywhere(doc, vs) ==
    /\ doc.examples # None
    /\ Len(Get(doc.examples)) \in 1..limit
    /\ Range(Get(doc.examples)) \subseteq Range(vs)
    /\ doc.properties # None =>
          \A k \in DOMAIN Get(doc.properties) :
              ExamplesEverywhere(Get(doc.properties)[k], ChildValues(vs, k))
    /\ doc.items # None => ExamplesEverywhere(Get(doc.items), ElementsOfAll(vs))
    /\ doc.anyOf # None =>
          \A i \in DOMAIN Get(doc.anyOf) : ExamplesEverywhere(Get(doc.anyOf)[i], vs)

(* C18: with limit N > 0, after at least one add_object every node of the  *)
(* returned schema (root, property nodes, items nodes and the nodes below  *)
(* them) carries `examples` with between 1 and N values observed there.    *)
C18_ExamplesAtEveryNode ==
    (out # None /\ limit > 0 /\ seen # <<>>) => ExamplesEverywhere(Get(out), seen)

(* The closed set of kinds, and whether a value outside it occurs in v, at  *)
(* the root, as a property value or as an element, at any depth.           *)
KindNames == {"null", "boolean", "integer", "number", "string", "array", "object"}

RECURSIVE ContainsUnsupported(_)
ContainsUnsupported(v) ==
    \/ v.kind \notin KindNames
    \/ \E k \in DOMAIN v.props : ContainsUnsupported(v.props[k])
    \/ \E i \in DOMAIN v.elems : ContainsUnsupported(v.elems[i])

(* C19: when a value outside the closed set occurs anywhere in its input,  *)
(* gen_schema raises and returns no schema; _get_type_name raises for a    *)
(* value outside the set and returns the one kind name of a value inside   *)
(* it, which is the type of the schema gen_schema returns.                 *)
C19_UnsupportedIsFatal ==
    (ret # None \/ raised) =>
        /\ _get_type_name(arg) = IF arg.kind \in KindNames THEN arg.kind ELSE ValueError
        /\ ContainsUnsupported(arg) => (raised /\ ret = None)
        /\ ret # None => (~raised /\ Get(ret).type_names = <<arg.kind>>)

C19_Witness ==
    /\ raised
    /\ ret = None
    /\ arg = JObj(<<"a">>, [a |-> JArr(<<JInt, JFunction>>)])

(* The tags whose pattern matches a string, in the order detect_format     *)
(* tries them.                                                             *)
PatternOrder == <<"email", "uuid", "date-time", "date", "uri", "ipv4">>

PatternMatches(tag, s) ==
    CASE tag = "email" -> EMAIL_PATTERN(s)
      [] tag = "uuid" -> UUID_PATTERN(s)
      [] tag = "date-time" -> DATETIME_PATTERN(s)
      [] tag = "date" -> DATE_PATTERN(s)
      [] tag = "uri" -> URI_PATTERN(s)
      [] tag = "ipv4" -> IPV4_PATTERN(s)

Matching(s) == SelectSeq(PatternOrder, LAMBDA tag : PatternMatches(tag, s))

(* C20: detect_format returns the tag of the first pattern, in the order   *)
(* email, uuid, date-time, date, uri, ipv4, that matches its input, and    *)
(* None when none matches or the input is empty or no string; it does not  *)
(* raise; and no string matches two patterns.                              *)
C20_FirstMatchNoOverlap ==
    ret # None =>
        /\ ~raised
        /\ Get(ret) =
              IF arg.kind # "string" \/ arg.str = "" \/ Matching(arg.str) = <<>>
              THEN None ELSE Some(Matching(arg.str)[1])
        /\ arg.kind = "string" => Len(Matching(arg.str)) <= 1

C20_Witness ==
    /\ arg = JStr("2024-12-31@example.com")
    /\ ret = Some(Some("email"))

---------------------------------------------------------------------------
(* The keywords of one document node of to_json_schema.                    *)
NodeKeywords(doc) ==
    /\ doc.properties # None => doc.additionalProperties = Some(FALSE)
    /\ doc.required # None => Get(doc.required) # <<>> /\ doc.properties # None
    /\ doc.type.list <=> Cardinality(Range(doc.type.names)) # 1

RECURSIVE DocKeywords(_)
DocKeywords(doc) ==
    /\ NodeKeywords(doc)
    /\ doc.properties # None =>
            \A k \in DOMAIN Get(doc.properties) : DocKeywords(Get(doc.properties)[k])
    /\ doc.items # None => DocKeywords(Get(doc.items))

(* C21: in every document of to_json_schema, a node with `properties` has  *)
(* additionalProperties false, `required` appears only non-empty and only  *)
(* on a node with `properties`, and `type` is a single name exactly when   *)
(* the node has one kind.                                                  *)
C21_DocumentKeywords ==
    acc # None => DocKeywords(to_json_schema(Get(acc)))

(* An object merged with a value of another kind: the root has a list     *)
(* `type`, keeps its properties (each of a single kind) and, no key being  *)
(* on both sides, has no `required` keyword.                               *)
C21_Witness ==
    /\ n = 2
    /\ acc # None
    /\ LET doc == to_json_schema(Get(acc))
       IN /\ doc.type.list
          /\ doc.properties # None
          /\ doc.additionalProperties = Some(FALSE)
          /\ doc.required = None
          /\ \E k \in DOMAIN Get(doc.properties) : ~Get(doc.properties)[k].type.list

---------------------------------------------------------------------------
(* SchemaComparator (compare_schemas.py).  A schema document is a JSON     *)
(* value; a dict is a value of kind "object".                              *)
EmptyDict == JObj(<<>>, <<>>)

(* {key: value}                                                            *)
Single(key, value) == JObj(<<key>>, [k \in {key} |-> value])

(* d.get(key, default)                                                     *)
DictGet(d, key, default) == IF key \in DOMAIN d.props THEN d.props[key] ELSE default

(* bool(d) of a dict: it has a key.                                        *)
Truthy(d) == DOMAIN d.props # {}

(* value if isinstance(value, dict) else {key: value}                      *)
AsDict(key, value) == IF value.kind = "object" THEN value ELSE Single(key, value)

(* The differences are collected in the iteration order of a set of keys,  *)
(* which Python leaves open: the list is modelled as the set of its        *)
(* (path, old_val, new_val) entries.                                       *)
RECURSIVE _find_differences(_, _, _)
_find_differences(old, new, path) ==
    LET all_keys == DOMAIN old.props \cup DOMAIN new.props
        OfKey(key) ==
            LET current_path == Append(path, key)
            IN IF key \notin DOMAIN old.props
               THEN {[path |-> current_path, old_val |-> EmptyDict,
                      new_val |-> AsDict(key, new.props[key])]}
               ELSE IF key \notin DOMAIN new.props
               THEN {[path |-> current_path, old_val |-> AsDict(key, old.props[key]),
                      new_val |-> EmptyDict]}
               ELSE IF old.props[key].kind = "object" /\ new.props[key].kind = "object"
               THEN _find_differences(old.props[key], new.props[key], current_path)
               ELSE IF ~PyEq(old.props[key], new.props[key])
               THEN {[path |-> current_path, old_val |-> AsDict(key, old.props[key]),
                      new_val |-> AsDict(key, new.props[key])]}
               ELSE {}
    IN UNION {OfKey(key) : key \in all_keys}

(* ''.join(f"[{json.dumps(item)}]" for item in path)                       *)
RECURSIVE _format_path(_)
_format_path(path) ==
    IF path = <<>> THEN ""
    ELSE "[\"" \o Head(path) \o "\"]" \o _format_path(Tail(path))

(* The one key of a dict of length 1.                                      *)
OnlyKey(val) == CHOOSE k \in DOMAIN val.props : TRUE

_is_simple_value(val) ==
    IF val.kind # "object" THEN TRUE
    ELSE IF Cardinality(DOMAIN val.props) # 1 THEN FALSE
    ELSE \/ OnlyKey(val) = "type"
         \/ val.props[OnlyKey(val)].kind \in {"string", "integer", "number", "boolean", "null"}

(* One rendered change: the branch that rendered it (category), the        *)
(* prefixes of its lines in order, the path text, and the values dumped    *)
(* after the path (None for a side that is not printed).                   *)
Rendered(category, prefixes, path, old, new) ==
    [category |-> category, prefixes |-> prefixes, path |-> path, old |-> old, new |-> new]

(* Every branch of the loop body of _format_differences, for one entry.    *)
FormatDifference(d) ==
    LET parent_path == _format_path(d.path)
        old_val == d.old_val
        new_val == d.new_val
        is_simple_change ==
            /\ DOMAIN old_val.props = {"type"}
            /\ DOMAIN new_val.props = {"type"}
        Shown(val) == DictGet(val, "type", val.props[OnlyKey(val)])
    IN IF Truthy(old_val) /\ Truthy(new_val)
       THEN IF is_simple_change
            THEN Rendered("changed", <<"r">>, parent_path,
                          Some(old_val.props["type"]), Some(new_val.props["type"]))
            ELSE Rendered("changed", <<"-", "+">>, parent_path, Some(old_val), Some(new_val))
       ELSE IF ~Truthy(old_val)
            THEN IF _is_simple_value(new_val)
                 THEN Rendered("added", <<"+">>, parent_path, None, Some(Shown(new_val)))
                 ELSE Rendered("added", <<"+">>, parent_path, None, Some(new_val))
            ELSE IF _is_simple_value(old_val)
                 THEN Rendered("removed", <<"-">>, parent_path, Some(Shown(old_val)), None)
                 ELSE Rendered("removed", <<"-">>, parent_path, Some(old_val), None)

(* The text is the rendered changes one after another; it is empty exactly *)
(* when there is none.                                                     *)
_format_differences(differences) == {FormatDifference(d) : d \in differences}

compare(old, new) ==
    _format_differences(
        _find_differences(Single("properties", DictGet(old, "properties", EmptyDict)),
                          Single("properties", DictGet(new, "properties", EmptyDict)),
                          <<>>))

(* The documents handed to the comparator.                                 *)
Ty(t) == Single("type", JStr(t))
ObjDoc(properties) ==
    JObj(<<"type", "properties">>, [type |-> JStr("object"), properties |-> properties])

DiffDocs ==
    { Ty("integer"),
      Ty("string"),
      Ty("object"),
      ObjDoc(EmptyDict),
      ObjDoc(Single("a", Ty("integer"))),
      ObjDoc(Single("a", Ty("string"))),
      ObjDoc(JObj(<<"a", "b">>, [a |-> Ty("integer"), b |-> Ty("integer")])),
      ObjDoc(Single("a", EmptyDict)),
      ObjDoc(Single("a", Ty("object"))),
      ObjDoc(Single("a", ObjDoc(EmptyDict))),
      ObjDoc(Single("a", ObjDoc(Single("b", Ty("integer"))))),
      ObjDoc(Single("a", JObj(<<"type", "required">>,
                              [type |-> JStr("object"), required |-> JArr(<<>>)]))),
      JObj(<<"type", "properties", "required">>,
           [type |-> JStr("object"), properties |-> Single("a", Ty("integer")),
            required |-> JArr(<<JStr("a")>>)]) }

(* SchemaComparator(old_schema, new_schema)                                *)
InitCompare ==
    /\ acc = None /\ hist = <<>> /\ n = 0
    /\ ConvIdle /\ CallIdle /\ ShotIdle
    /\ old_schema \in DiffDocs /\ new_schema \in DiffDocs
    /\ _last_key = None /\ _last_result = None
    /\ pc = <<>> /\ loc = <<>>

(* text = comparator.compare()                                             *)
Compare ==
    /\ ret = None
    /\ ret' = Some(compare(old_schema, new_schema))
    /\ UNCHANGED <<merge_vars, conv_vars, arg, raised, differ_vars, shot_vars>>

SpecCompare == InitCompare /\ [][Compare]_vars

---------------------------------------------------------------------------
(* Properties of SchemaComparator.                                         *)

(* The keywords of the root node on which two documents differ: present on *)
(* one side only, or present on both with unequal values.                  *)
RootDifferences(old, new) ==
    {k \in DOMAIN old.props \cup DOMAIN new.props :
        \/ k \notin DOMAIN old.props
        \/ k \notin DOMAIN new.props
        \/ ~PyEq(old.props[k], new.props[k])}

(* C22: diffing {"type": "integer"} with {"type": "string"} renders        *)
(* exactly one replace entry at path `.type`, and a difference in any      *)
(* keyword of the root node is reported.                                   *)
C22_RootKeywordReported ==
    ret # None =>
        /\ (old_schema = Ty("integer") /\ new_schema = Ty("string")) =>
                Get(ret) = {Rendered("changed", <<"r">>, ".type",
                                     Some(JStr("integer")), Some(JStr("string")))}
        /\ RootDifferences(old_schema, new_schema) # {} => Get(ret) # {}

(* The category of every key the lock-step walk of two dicts meets: added  *)
(* when the key is absent from the old side, removed when it is absent     *)
(* from the new side, changed when it is on both sides with unequal values *)
(* that are not both dicts; the walk descends where both are dicts.        *)
RECURSIVE Categories(_, _, _)
Categories(old, new, path) ==
    LET OfKey(key) ==
            LET here == Append(path, key)
            IN IF key \notin DOMAIN old.props
               THEN {[path |-> _format_path(here), category |-> "added"]}
               ELSE IF key \notin DOMAIN new.props
               THEN {[path |-> _format_path(here), category |-> "removed"]}
               ELSE IF old.props[key].kind = "object" /\ new.props[key].kind = "object"
               THEN Categories(old.props[key], new.props[key], here)
               ELSE IF ~PyEq(old.props[key], new.props[key])
               THEN {[path |-> _format_path(here), category |-> "changed"]}
               ELSE {}
    IN UNION {OfKey(key) : key \in DOMAIN old.props \cup DOMAIN new.props}

(* The properties trees compare() walks.                                   *)
PropertiesOf(doc) == Single("properties", DictGet(doc, "properties", EmptyDict))

(* C23: SchemaComparator renders a change as added exactly when its key is *)
(* absent from the old side, as removed exactly when it is absent from the *)
(* new side, and as changed exactly when it is on both sides with unequal  *)
(* values that are not both nested.                                        *)
C23_Categorization ==
    ret # None =>
        {[path |-> r.path, category |-> r.category] : r \in Get(ret)}
            = Categories(PropertiesOf(old_schema), PropertiesOf(new_schema), <<>>)

(* An empty keyword value: {} or [].                                       *)
IsEmptyValue(v) ==
    \/ v.kind = "object" /\ DOMAIN v.props = {}
    \/ v.kind = "array" /\ v.elems = <<>>

(* The keywords of an output document that hold a dict or a list.         *)
ContainerKeywords == {"properties", "required", "examples"}

(* The paths, at every level of the lock-step walk, of the keywords that   *)
(* are absent on one side and empty on the other.                          *)
RECURSIVE AbsentVersusEmpty(_, _, _)
AbsentVersusEmpty(old, new, path) ==
    LET Hit(key, v, here) ==
            IF key \in ContainerKeywords /\ IsEmptyValue(v)
            THEN {_format_path(here)} ELSE {}
        OfKey(key) ==
            LET here == Append(path, key)
            IN IF key \notin DOMAIN old.props THEN Hit(key, new.props[key], here)
               ELSE IF key \notin DOMAIN new.props THEN Hit(key, old.props[key], here)
               ELSE IF old.props[key].kind = "object" /\ new.props[key].kind = "object"
               THEN AbsentVersusEmpty(old.props[key], new.props[key], here)
               ELSE {}
    IN UNION {OfKey(key) : key \in DOMAIN old.props \cup DOMAIN new.props}

(* C24: compare() returns a text whichever optional keywords the documents *)
(* lack; a keyword absent on one side and empty on the other produces no   *)
(* change entry at any level; two equal documents produce an empty diff.   *)
C24_MissingEqualsEmpty ==
    ret # None =>
        /\ \A r \in Get(ret) :
              r.path \notin AbsentVersusEmpty(PropertiesOf(old_schema),
                                              PropertiesOf(new_schema), <<>>)
        /\ PyEq(old_schema, new_schema) => Get(ret) = {}

---------------------------------------------------------------------------
(* JsonSchemaDiff (schema_diff.py): the last-call cache in front of the    *)
(* jsonschema_diff comparison.                                             *)

(* sorted() order of the keys of the documents of the model.               *)
DocKeyOrder == <<"a", "b", "properties", "required", "type">>

(* json.dumps(obj, sort_keys=True, separators=(",", ":")): the text of a   *)
(* document, the keys of every object in sorted order.                     *)
RECURSIVE dumps(_), DumpMembers(_, _), DumpElements(_)
DumpMembers(obj, keys) ==
    IF keys = <<>> THEN ""
    ELSE "\"" \o Head(keys) \o "\":" \o dumps(obj.props[Head(keys)])
         \o (IF Tail(keys) = <<>> THEN "" ELSE ",")
         \o DumpMembers(obj, Tail(keys))

DumpElements(elems) ==
    IF elems = <<>> THEN ""
    ELSE dumps(Head(elems)) \o (IF Tail(elems) = <<>> THEN "" ELSE ",")
         \o DumpElements(Tail(elems))

dumps(obj) ==
    CASE obj.kind = "object" ->
            "{" \o DumpMembers(obj, SelectSeq(DocKeyOrder, LAMBDA k : k \in DOMAIN obj.props))
                \o "}"
      [] obj.kind = "array" -> "[" \o DumpElements(obj.elems) \o "]"
      [] obj.kind = "string" -> "\"" \o obj.str \o "\""
      [] obj.kind = "boolean" -> IF obj.str = "1" THEN "true" ELSE "false"
      [] obj.kind = "null" -> "null"
      [] OTHER -> obj.str

_canonical_bytes(obj) == dumps(obj)

(* The digest that leaves the new document out.                            *)
HashOldOnly(a, b) == <<a>>

(* A 256-bit BLAKE2b digest of \x00 a \x01 b, taken to be free of          *)
(* collisions: the digests of two pairs are equal exactly when the pairs   *)
(* are.                                                                    *)
_hash_pair(a, b) == <<a, b>>

(* differ.compare(old_obj, new_obj); differ.render() of the jsonschema_diff *)
(* package: a text determined by the JSON content of the two documents.    *)
RenderDiff(old_obj, new_obj) == dumps(old_obj) \o " -> " \o dumps(new_obj)

(* The computed path returning the shared slot instead of its own result.  *)
ReturnShared(result, shared) == shared

(* return result                                                           *)
ReturnComputed(result, shared) == result

MaxCalls == 3   \* the most calls of diff one caller makes

(* A caller outside diff.  prev is the pair whose comparison the caller    *)
(* stored last (None after it invalidated the cache); before is prev as it *)
(* was when the current call began.                                        *)
IdleCaller ==
    [old |-> None, new |-> None, key |-> None, result |-> None, ret |-> None,
     hit |-> FALSE, calls |-> 0, prev |-> None, before |-> None]

InitDiffer(callers) ==
    /\ acc = None /\ hist = <<>> /\ n = 0
    /\ ConvIdle /\ CallIdle /\ ShotIdle
    /\ old_schema = None /\ new_schema = None
    /\ _last_key = None /\ _last_result = None
    /\ pc = [t \in callers |-> "idle"]
    /\ loc = [t \in callers |-> IdleCaller]

Outside(t) == pc[t] \in {"idle", "done"}

(* What no step of diff or invalidate_cache touches.                       *)
DifferFrame ==
    UNCHANGED <<merge_vars, conv_vars, call_vars, old_schema, new_schema, shot_vars>>

(* diff(old_schema, new_schema), lines 52-57: load both documents and      *)
(* compute the key.                                                        *)
Begin(t, old, new) ==
    /\ Outside(t)
    /\ loc[t].calls < MaxCalls
    /\ loc' = [loc EXCEPT ![t] =
                  [@ EXCEPT !.old = Some(old), !.new = Some(new),
                            !.key = Some(_hash_pair(_canonical_bytes(old),
                                                    _canonical_bytes(new))),
                            !.result = None, !.ret = None, !.hit = FALSE,
                            !.calls = @ + 1, !.before = loc[t].prev]]
    /\ pc' = [pc EXCEPT ![t] = "check_key"]
    /\ UNCHANGED <<_last_key, _last_result>>
    /\ DifferFrame

(* key == cls._last_key                                                    *)
CheckKey(t) ==
    /\ pc[t] = "check_key"
    /\ pc' = [pc EXCEPT ![t] = IF loc[t].key = _last_key THEN "check_result" ELSE "compute"]
    /\ UNCHANGED <<loc, _last_key, _last_result>>
    /\ DifferFrame

(* and cls._last_result is not None                                        *)
CheckResult(t) ==
    /\ pc[t] = "check_result"
    /\ pc' = [pc EXCEPT ![t] = IF _last_result # None THEN "return_cached" ELSE "compute"]
    /\ UNCHANGED <<loc, _last_key, _last_result>>
    /\ DifferFrame

(* return cls._last_result                                                 *)
ReturnCached(t) ==
    /\ pc[t] = "return_cached"
    /\ loc' = [loc EXCEPT ![t].ret = _last_result, ![t].hit = TRUE]
    /\ pc' = [pc EXCEPT ![t] = "done"]
    /\ UNCHANGED <<_last_key, _last_result>>
    /\ DifferFrame

(* differ.compare(old_obj, new_obj); result = differ.render()              *)
ComputeDiff(t) ==
    /\ pc[t] = "compute"
    /\ loc' = [loc EXCEPT ![t].result = Some(RenderDiff(Get(loc[t].old), Get(loc[t].new)))]
    /\ pc' = [pc EXCEPT ![t] = "store_key"]
    /\ UNCHANGED <<_last_key, _last_result>>
    /\ DifferFrame

(* cls._last_key = key                                                     *)
StoreKey(t) ==
    /\ pc[t] = "store_key"
    /\ _last_key' = loc[t].key
    /\ pc' = [pc EXCEPT ![t] = "store_result"]
    /\ UNCHANGED <<loc, _last_result>>
    /\ DifferFrame

(* cls._last_result = result                                               *)
StoreResult(t) ==
    /\ pc[t] = "store_result"
    /\ _last_result' = loc[t].result
    /\ loc' = [loc EXCEPT ![t].prev = Some(<<Get(loc[t].old), Get(loc[t].new)>>)]
    /\ pc' = [pc EXCEPT ![t] = "return"]
    /\ UNCHANGED _last_key
    /\ DifferFrame

(* return result                                                           *)
ReturnResult(t) ==
    /\ pc[t] = "return"
    /\ loc' = [loc EXCEPT ![t].ret = ReturnComputed(loc[t].result, _last_result)]
    /\ pc' = [pc EXCEPT ![t] = "done"]
    /\ UNCHANGED <<_last_key, _last_result>>
    /\ DifferFrame

(* JsonSchemaDiff.invalidate_cache(), called between two calls of diff     *)
InvalidateCache(t) ==
    /\ Outside(t)
    /\ _last_key # None \/ _last_result # None
    /\ _last_key' = None
    /\ _last_result' = None
    /\ loc' = [loc EXCEPT ![t].prev = None]
    /\ UNCHANGED pc
    /\ DifferFrame

(* The documents and pairs handed to diff: two orders of the keys of one   *)
(* document among them.                                                    *)
KeysTypeFirst ==
    JObj(<<"type", "properties">>, [type |-> JStr("object"), properties |-> EmptyDict])
KeysTypeLast ==
    JObj(<<"properties", "type">>, [type |-> JStr("object"), properties |-> EmptyDict])

CachePairs ==
    { <<Ty("integer"), Ty("string")>>,
      <<Ty("string"), Ty("integer")>>,
      <<Ty("integer"), Ty("integer")>>,
      <<Ty("integer"), KeysTypeFirst>>,
      <<Ty("integer"), KeysTypeLast>>,
      <<KeysTypeLast, Ty("integer")>> }

(* Single-threaded use: one caller, whole calls one after another.         *)
InitCache == InitDiffer({1})

NextCache ==
    \/ \E p \in CachePairs : Begin(1, p[1], p[2])
    \/ CheckKey(1)
    \/ CheckResult(1)
    \/ ReturnCached(1)
    \/ ComputeDiff(1)
    \/ StoreKey(1)
    \/ StoreResult(1)
    \/ ReturnResult(1)
    \/ InvalidateCache(1)

SpecCache == InitCache /\ [][NextCache]_vars

(* Two callers on the shared class-level cache, their reads and writes     *)
(* interleaving freely.                                                    *)
RacePairs == {<<Ty("integer"), Ty("string")>>, <<Ty("string"), Ty("integer")>>}

InitRace == InitDiffer({1, 2})

NextRace ==
    \/ \E t \in DOMAIN pc, p \in RacePairs : Begin(t, p[1], p[2])
    \/ \E t \in DOMAIN pc : CheckKey(t)
    \/ \E t \in DOMAIN pc : CheckResult(t)
    \/ \E t \in DOMAIN pc : ReturnCached(t)
    \/ \E t \in DOMAIN pc : ComputeDiff(t)
    \/ \E t \in DOMAIN pc : StoreKey(t)
    \/ \E t \in DOMAIN pc : StoreResult(t)
    \/ \E t \in DOMAIN pc : ReturnResult(t)

SpecRace == InitRace /\ [][NextRace]_vars

---------------------------------------------------------------------------
(* Properties of JsonSchemaDiff.                                           *)

(* Two pairs of documents with the same canonical encodings, in the same   *)
(* order.                                                                  *)
SameCanonicalPair(p, old, new) ==
    /\ _canonical_bytes(p[1]) = _canonical_bytes(old)
    /\ _canonical_bytes(p[2]) = _canonical_bytes(new)

OwnText(t) == Some(RenderDiff(Get(loc[t].old), Get(loc[t].new)))

(* C26: with two callers interleaving on the shared cache a call can       *)
(* return the text computed for the other caller's pair (the state of      *)
(* C26_Witness is reachable); it does so only on the path that answers     *)
(* from the cache, and a call that computed returns its own text.          *)
C26_MismatchOnlyFromCache ==
    \A t \in DOMAIN pc :
        pc[t] = "done" =>
            \/ loc[t].ret = OwnText(t)
            \/ /\ loc[t].hit
               /\ \E p \in RacePairs : loc[t].ret = Some(RenderDiff(p[1], p[2]))

(* A call has returned the text that the other caller computed for another *)
(* pair.                                                                   *)
C26_Witness ==
    \E t \in DOMAIN pc, u \in DOMAIN pc :
        /\ t # u
        /\ pc[t] = "done"
        /\ loc[t].ret # None
        /\ loc[t].ret # OwnText(t)
        /\ loc[u].result # None
        /\ loc[t].ret = loc[u].result
        /\ loc[u].old # loc[t].old

---------------------------------------------------------------------------
(* SchemaShot (core.py) and cleanup_unused_schemas (plugin.py).  The       *)
(* snapshot directory is a mapping from file name to content.              *)
SchemaFile(name) == name \o ".schema.json"
OriginalFile(name) == name \o ".json"

(* snapshot_dir.glob("*.schema.json")                                      *)
IsSchemaFile(f) ==
    /\ Len(f) >= Len(".schema.json")
    /\ SubSeq(f, Len(f) - Len(".schema.json") + 1, Len(f)) = ".schema.json"

Exists(fs, path) == path \in DOMAIN fs
WriteFile(fs, path, content) ==
    [f \in DOMAIN fs \cup {path} |-> IF f = path THEN content ELSE fs[f]]
Unlink(fs, path) == [f \in DOMAIN fs \ {path} |-> fs[f]]

(* A list of GLOBAL_STATS as the number of times each name is on it.       *)
Count(list, name) == IF name \in DOMAIN list THEN list[name] ELSE 0
Appended(list, name) ==
    [f \in DOMAIN list \cup {name} |-> Count(list, f) + (IF f = name THEN 1 ELSE 0)]

NoStats == [created |-> <<>>, updated |-> <<>>, deleted |-> <<>>, unused |-> <<>>]

(* _process_name of a str: an empty name raises ValueError.                *)
ProcessNameRaises(name) == name = ""

(* builder = JsonToSchemaConverter(); builder.add_object(data);            *)
(* current_schema = builder.to_schema()                                    *)
CurrentSchema(data) ==
    to_schema(NodeAdd(<<>>, data), None,
              _process([formats |-> <<>>, examples |-> <<>>], "on", 0, data, "root"),
              "on", 0)

(* jsonschema.validate(instance=data, schema=schema) raises                *)
(* ValidationError: the `type` keyword of the root is what is checked.     *)
ValidateRaises(data, schema) ==
    /\ schema.type # None
    /\ data.kind \notin Range(Get(schema.type).names)

(* The outcome of a call: the directory, used_schemas and statistics after *)
(* it, and either the status it returned ("None", "True" or "False") or    *)
(* that it raised.                                                         *)
Outcome(fs, used, st, status, exc) ==
    [files |-> fs, used |-> used, stats |-> st, status |-> status, raised |-> exc]

(* _base_match writing the existing schema file only.                      *)
BaseMatchNeverCreates(fs, used, st, update, data, current_schema, name) ==
    LET schema_path == SchemaFile(name)
        used1 == used \cup {schema_path}
    IN IF ~Exists(fs, schema_path)
       THEN IF update THEN Outcome(fs, used1, st, Some("None"), FALSE)
            ELSE Outcome(fs, used1, st, None, TRUE)
       ELSE IF fs[schema_path] # current_schema /\ update
       THEN Outcome(WriteFile(fs, schema_path, current_schema), used1,
                    [st EXCEPT !.updated = Appended(@, schema_path)], Some("True"), FALSE)
       ELSE Outcome(fs, used1, st, Some("False"), FALSE)

_base_match(fs, used, st, update, data, current_schema, name) ==
    LET schema_path == SchemaFile(name)
        used1 == used \cup {schema_path}
    IN IF ProcessNameRaises(name) THEN Outcome(fs, used, st, None, TRUE)
       ELSE IF ~Exists(fs, schema_path)
       THEN IF ~update
            THEN Outcome(fs, used1, st, None, TRUE)
            ELSE Outcome(WriteFile(fs, schema_path, current_schema), used1,
                         [st EXCEPT !.created = Appended(@, schema_path)],
                         Some("None"), FALSE)
       ELSE LET existing_schema == fs[schema_path]
            IN IF existing_schema # current_schema
               THEN IF update
                    THEN Outcome(WriteFile(fs, schema_path, current_schema), used1,
                                 [st EXCEPT !.updated = Appended(@, schema_path)],
                                 Some("True"), FALSE)
                    ELSE IF data # None
                    \* GLOBAL_STATS.add_uncommitted(name, differences): the method
                    \* takes three arguments, the call raises TypeError
                    THEN Outcome(fs, used1, st, None, TRUE)
                    ELSE Outcome(fs, used1, st, Some("False"), FALSE)
               ELSE IF data # None /\ ValidateRaises(Get(data), existing_schema)
                    THEN Outcome(fs, used1, st, None, TRUE)
                    ELSE Outcome(fs, used1, st, Some("False"), FALSE)

assert_schema_match(fs, used, st, update, schema, name) ==
    IF ProcessNameRaises(name) THEN Outcome(fs, used, st, None, TRUE)
    ELSE _base_match(fs, used, st, update, None, schema, name)

(* assert_json_match saving the original whatever the update mode.         *)
AssertJsonMatchAlwaysSaves(fs, used, st, update, save, data, name) ==
    LET m == _base_match(fs, used, st, update, Some(data), CurrentSchema(data), name)
    IN IF ProcessNameRaises(name) THEN Outcome(fs, used, st, None, TRUE)
       ELSE IF m.raised THEN m
       ELSE [m EXCEPT !.files = WriteFile(@, OriginalFile(name), data)]

assert_json_match(fs, used, st, update, save, data, name) ==
    LET m == _base_match(fs, used, st, update, Some(data), CurrentSchema(data), name)
        json_name == OriginalFile(name)
        available_to_create == ~Exists(m.files, json_name) \/ m.status = Some("None")
        available_to_update == m.status = Some("True")
    IN IF ProcessNameRaises(name) THEN Outcome(fs, used, st, None, TRUE)
       ELSE IF m.raised THEN m
       ELSE IF ~update THEN m
       ELSE IF save
       THEN IF available_to_create
            THEN [m EXCEPT !.files = WriteFile(@, json_name, data),
                           !.stats.created = Appended(@, json_name)]
            ELSE IF available_to_update
            THEN [m EXCEPT !.files = WriteFile(@, json_name, data),
                           !.stats.updated = Appended(@, json_name)]
            ELSE m
       \* json_path.unlink() raises FileNotFoundError when there is no file
       ELSE IF Exists(m.files, json_name)
       THEN [m EXCEPT !.files = Unlink(@, json_name),
                      !.stats.deleted = Appended(@, json_name)]
       ELSE [m EXCEPT !.status = None, !.raised = TRUE]

(* The schema files of the directory that the run did not use.             *)
UnusedSchemas(fs, used) == {f \in DOMAIN fs : IsSchemaFile(f) /\ f \notin used}

(* cleanup deleting every schema file of the directory.                    *)
CleanupDeletesAll(fs, used, st, update) ==
    LET all_schemas == {f \in DOMAIN fs : IsSchemaFile(f)}
    IN IF update
       THEN Outcome([f \in DOMAIN fs \ all_schemas |-> fs[f]], used,
                    [st EXCEPT !.deleted =
                        [f \in DOMAIN @ \cup all_schemas |->
                            Count(@, f) + (IF f \in all_schemas THEN 1 ELSE 0)]],
                    Some("None"), FALSE)
       ELSE Outcome(fs, used, st, Some("None"), FALSE)

cleanup_unused_schemas(fs, used, st, update) ==
    LET unused == UnusedSchemas(fs, used)
        Recorded(list) ==
            [f \in DOMAIN list \cup unused |->
                Count(list, f) + (IF f \in unused THEN 1 ELSE 0)]
    IN IF update
       THEN Outcome([f \in DOMAIN fs \ unused |-> fs[f]], used,
                    [st EXCEPT !.deleted = Recorded(@)], Some("None"), FALSE)
       ELSE Outcome(fs, used, [st EXCEPT !.unused = Recorded(@)], Some("None"), FALSE)

(* The run: a SchemaShot over a directory that may hold snapshots of an    *)
(* earlier run, then assertions and cleanups in any order.                 *)
MaxShotCalls == 3   \* the most calls in one run

ShotNames == {"x", "y", ""}
ShotData == {JInt, JStr(PlainStr)}
ShotSchemas == {CurrentSchema(d) : d \in ShotData}

InitialDirs ==
    { <<>>,
      [f \in {SchemaFile("x")} |-> CurrentSchema(JInt)],
      [f \in {SchemaFile("x"), OriginalFile("x"), SchemaFile("y")} |->
          IF f = OriginalFile("x") THEN JInt ELSE CurrentSchema(JInt)] }

NoCall == [op |-> "", name |-> "", value |-> None, update |-> FALSE]

(* SchemaShot(root_dir, differ, update_mode=..., save_original=...)        *)
InitShot ==
    /\ acc = None /\ hist = <<>> /\ n = 0
    /\ ConvIdle /\ DifferIdle
    /\ arg = NoCall /\ ret = None /\ raised = FALSE
    /\ files \in InitialDirs
    /\ used_schemas = {}
    /\ update_mode \in BOOLEAN
    /\ save_original \in BOOLEAN
    /\ stats = NoStats
    /\ calls = 0

(* The call made becomes arg, its outcome the new state.                   *)
Called(call, o) ==
    /\ calls < MaxShotCalls
    /\ calls' = calls + 1
    /\ arg' = call
    /\ files' = o.files
    /\ used_schemas' = o.used
    /\ stats' = o.stats
    /\ ret' = o.status
    /\ raised' = o.raised
    /\ UNCHANGED <<merge_vars, conv_vars, differ_vars, update_mode, save_original>>

AssertSchemaMatch(schema, name) ==
    Called([op |-> "assert_schema_match", name |-> name, value |-> Some(schema),
            update |-> update_mode],
           assert_schema_match(files, used_schemas, stats, update_mode, schema, name))

AssertJsonMatch(data, name) ==
    Called([op |-> "assert_json_match", name |-> name, value |-> Some(data),
            update |-> update_mode],
           assert_json_match(files, used_schemas, stats, update_mode, save_original,
                             data, name))

(* cleanup_unused_schemas(manager, update_mode, GLOBAL_STATS)              *)
CleanupUnusedSchemas(update) ==
    Called([op |-> "cleanup_unused_schemas", name |-> "", value |-> None,
            update |-> update],
           cleanup_unused_schemas(files, used_schemas, stats, update))

NextShot ==
    \/ \E schema \in ShotSchemas, name \in ShotNames : AssertSchemaMatch(schema, name)
    \/ \E data \in ShotData, name \in ShotNames : AssertJsonMatch(data, name)
    \/ \E update \in BOOLEAN : CleanupUnusedSchemas(update)

SpecShot == InitShot /\ [][NextShot]_vars

---------------------------------------------------------------------------
(* Properties of SchemaShot.                                               *)

(* The step is a call of assert_schema_match or assert_json_match with a   *)
(* name that _process_name accepts.                                        *)
AssertionStep ==
    /\ calls' = calls + 1
    /\ arg'.op \in {"assert_schema_match", "assert_json_match"}
    /\ ~ProcessNameRaises(arg'.name)

(* The current schema of the call recorded in a.                           *)
CurrentOf(a) ==
    IF a.op = "assert_schema_match" THEN Get(a.value) ELSE CurrentSchema(Get(a.value))

(* C27: an assertion that returns gives None exactly when no snapshot file *)
(* existed and one was created, True exactly when the existing file        *)
(* differed from the current schema and was overwritten, False exactly     *)
(* when the existing file was left unchanged; after None or True the file  *)
(* holds the current schema (both only in update mode); with no file and   *)
(* update mode off the call fails and creates nothing.                     *)
C27_BaseMatchContract ==
    [][AssertionStep =>
        LET path == SchemaFile(arg'.name)
            existed == Exists(files, path)
            current == CurrentOf(arg')
            holds_current == Exists(files', path) /\ files'[path] = current
        IN /\ ~raised' =>
                /\ ret' \in {Some("None"), Some("True"), Some("False")}
                /\ ret' = Some("None") <=> ~existed /\ Exists(files', path)
                /\ ret' = Some("True") <=>
                        existed /\ files[path] # current /\ files'[path] # files[path]
                /\ ret' = Some("False") <=> existed /\ files'[path] = files[path]
                /\ ret' \in {Some("None"), Some("True")} => holds_current /\ update_mode
           /\ (~existed /\ ~update_mode) => raised' /\ files' = files
    ]_vars

(* A schema created by one assertion of the run has been overwritten by a  *)
(* later one with another current schema, which returned True.             *)
C27_Witness ==
    /\ arg.op = "assert_schema_match"
    /\ ret = Some("True")
    /\ update_mode
    /\ Count(stats.created, SchemaFile(arg.name)) = 1
    /\ Count(stats.updated, SchemaFile(arg.name)) = 1
    /\ files[SchemaFile(arg.name)] = Get(arg.value)

(* C28: without update mode no call of assert_schema_match,                *)
(* assert_json_match or cleanup_unused_schemas creates, overwrites or      *)
(* deletes a file of the snapshot directory, whether it passes or fails.   *)
C28_NoWritesWithoutUpdate ==
    [][(calls' = calls + 1 /\ ~arg'.update) => files' = files]_vars

(* Without update mode: an assertion on one name, a cleanup that recorded  *)
(* the other schema as unused, then an assertion on that one which passed; *)
(* the directory still holds its three files.                              *)
C28_Witness ==
    /\ ~update_mode
    /\ calls = 3
    /\ arg.op = "assert_schema_match"
    /\ ret = Some("False")
    /\ Cardinality(used_schemas) = 2
    /\ \E f \in DOMAIN files : Count(stats.unused, f) = 1
    /\ DOMAIN files = {SchemaFile("x"), OriginalFile("x"), SchemaFile("y")}

(* C29: the schema file of every assertion is in used_schemas after the    *)
(* call, failed or not; cleanup in update mode deletes exactly the          *)
(* *.schema.json files that are not in used_schemas, never one that is,    *)
(* and records each once as deleted; without update mode it deletes        *)
(* nothing and records each unused file once as unused.                    *)
C29_CleanupSafety ==
    [][/\ AssertionStep => SchemaFile(arg'.name) \in used_schemas'
       /\ (calls' = calls + 1 /\ arg'.op = "cleanup_unused_schemas") =>
            LET unused == {f \in DOMAIN files : IsSchemaFile(f) /\ f \notin used_schemas}
                names == DOMAIN files \cup DOMAIN stats.deleted \cup DOMAIN stats.unused
                Once(before, after) ==
                    \A f \in names \cup DOMAIN after :
                        Count(after, f) = Count(before, f) + (IF f \in unused THEN 1 ELSE 0)
            IN /\ used_schemas' = used_schemas
               /\ \A f \in DOMAIN files' : f \in DOMAIN files /\ files'[f] = files[f]
               /\ IF arg'.update
                  THEN /\ DOMAIN files' = DOMAIN files \ unused
                       /\ used_schemas \cap DOMAIN files \subseteq DOMAIN files'
                       /\ Once(stats.deleted, stats'.deleted)
                       /\ stats'.unused = stats.unused
                  ELSE /\ DOMAIN files' = DOMAIN files
                       /\ Once(stats.unused, stats'.unused)
                       /\ stats'.deleted = stats.deleted
    ]_vars

(* A cleanup in update mode has deleted the schema no assertion named and  *)
(* kept the asserted one and the original beside it.                       *)
C29_Witness ==
    /\ arg.op = "cleanup_unused_schemas"
    /\ arg.update
    /\ SchemaFile("x") \in used_schemas
    /\ DOMAIN files = {SchemaFile("x"), OriginalFile("x")}
    /\ Count(stats.deleted, SchemaFile("y")) = 1
    /\ Count(stats.deleted, SchemaFile("x")) = 0

(* C30: in update mode with save_original off, assert_json_match returns   *)
(* the status of _base_match whether or not the original existed, and no   *)
(* original exists afterwards; with save_original on it writes the         *)
(* original exactly when the schema was created or updated or there was no *)
(* original.                                                               *)
C30_OriginalFile ==
    [][(/\ calls' = calls + 1
        /\ arg'.op = "assert_json_match"
        /\ ~ProcessNameRaises(arg'.name)
        /\ update_mode) =>
            LET json_name == OriginalFile(arg'.name)
                data == Get(arg'.value)
                base == _base_match(files, used_schemas, stats, update_mode, arg'.value,
                                    CurrentSchema(data), arg'.name)
                Records(st) == Count(st.created, json_name) + Count(st.updated, json_name)
                written == Records(stats') = Records(stats) + 1
            IN IF ~save_original
               THEN /\ ~raised'
                    /\ ret' = base.status
                    /\ ~Exists(files', json_name)
               ELSE /\ written <=>
                        \/ base.status \in {Some("None"), Some("True")}
                        \/ ~Exists(files, json_name)
                    /\ written => Exists(files', json_name) /\ files'[json_name] = data
                    /\ ~written => Records(stats') = Records(stats)
    ]_vars

====
